---- MODULE Spec2Model ----
(***************************************************************************)
(* A model of the goldfish pipe v2 guest driver (src/goldfish_pipe_v2.c):  *)
(* the per-pipe command channel, the read/write transfer loop, the        *)
(* signalled-pipe list with its interrupt handler and tasklet, the pipe    *)
(* registry and the per-pipe DMA region.                                   *)
(*                                                                         *)
(* Threads are user threads inside one system call each; the interrupt     *)
(* handler and the tasklet are two more contexts.  A section of code that  *)
(* runs under dev->lock (a spinlock taken with interrupts off) is one      *)
(* action.  A section under pipe->lock (a mutex) is split at the doorbell: *)
(* the first action takes the mutex and fills the command buffer, the      *)
(* second rings the doorbell (the host answers inside the register write), *)
(* reads the answer back and drops the mutex.                              *)
(***************************************************************************)
EXTENDS Integers, Sequences, FiniteSets, TLC

----------------------------------------------------------------------------
(* Bounds of the model *)

\* number of user threads
NThreads == 2
\* number of struct goldfish_pipe objects the allocator can hand out
MaxPipes == 2
\* slots of dev->pipes after goldfish_pipe_device_v2_init; the driver starts
\* with INITIAL_PIPES_CAPACITY (64) and the model with fewer, so that the
\* doubling path of get_free_pipe_id_locked is reached with MaxPipes objects
InitialCapacity == 1
\* entries of the signalled_pipe_buffers array the host can fill per
\* interrupt; the driver has MAX_SIGNALLED_PIPES (64)
SignalBufferLen == 1

\* the entries of the signal buffer where one run of the handler is
\* observed entry by entry (MAX_SIGNALLED_PIPES, 64, in the driver)
IrqBatchLen == 2

----------------------------------------------------------------------------
(* Program constants *)

PAGE_SIZE == 4096
MAX_BUFFERS_PER_COMMAND == 336
DMA_REGION_MIN_SIZE == PAGE_SIZE
DMA_REGION_MAX_SIZE == 268435456

\* host status codes (goldfish_pipe_qemu.h)
PIPE_ERROR_INVAL == -1
PIPE_ERROR_AGAIN == -2
PIPE_ERROR_NOMEM == -3
PIPE_ERROR_IO == -4

\* errno values
EIO == 5
EAGAIN == 11
ENOMEM == 12
EFAULT == 14
EBUSY == 16
EINVAL == 22
ERESTARTSYS == 512

\* bits of goldfish_pipe::flags and of the host's wake flags; a bitset is
\* modelled as the set of its bits
BIT_CLOSED_ON_HOST == "closed_on_host"
BIT_WAKE_ON_READ == "wake_on_read"
BIT_WAKE_ON_WRITE == "wake_on_write"
PIPE_WAKE_CLOSED == "closed"
PIPE_WAKE_READ == "read"
PIPE_WAKE_WRITE == "write"

PipeCmdCode ==
  { "NONE", "OPEN", "CLOSE", "POLL", "WRITE", "WAKE_ON_WRITE", "READ",
    "WAKE_ON_READ", "DMA_HOST_MAP", "DMA_HOST_UNMAP" }

NULL == 0
Threads == 1 .. NThreads
Objs == 1 .. MaxPipes

----------------------------------------------------------------------------
VARIABLES
  pipes,                \* dev->pipes: slot -> pipe object or NULL
  pipes_capacity,       \* dev->pipes_capacity
  first_signalled_pipe, \* dev->first_signalled_pipe
  dma_alloc_total,      \* dev->dma_alloc_total
  open_command_params,  \* dev->buffers->open_command_params
  pipe,                 \* the struct goldfish_pipe objects, by address
  file,                 \* per object: state of the struct file that owns it
  asleep,               \* threads sleeping on their pipe's wake_queue
  pc,                   \* per thread: where it is in its system call
  loc,                  \* per thread: the locals of its system call
  irq_tasklet,          \* the tasklet: scheduled flag, position and locals
  hist                  \* per object: what was done for it (observation only)

vars ==
  << pipes, pipes_capacity, first_signalled_pipe, dma_alloc_total,
     open_command_params, pipe, file, asleep, pc, loc, irq_tasklet, hist >>

----------------------------------------------------------------------------
(* Pure helpers *)

Max(a, b) == IF a > b THEN a ELSE b
Min(a, b) == IF a < b THEN a ELSE b

\* struct goldfish_pipe_command, fresh from __get_free_page
CommandBuffer0 ==
  [ cmd |-> "NONE", id |-> 0, status |-> 0, buffers_count |-> 0,
    consumed_size |-> 0, buffers_bytes |-> 0, dma_paddr |-> 0, sz |-> 0 ]

\* pipe->dma when it is a null pointer, and struct goldfish_dma_context as
\* kzalloc returns it
NoDma ==
  [ present |-> FALSE, dma_vaddr |-> FALSE, dma_size |-> 0,
    phys_begin |-> 0, phys_end |-> 0 ]

DmaContext0 == [ NoDma EXCEPT !.present = TRUE ]

\* struct goldfish_pipe as kzalloc returns it
Pipe0 ==
  [ allocated |-> FALSE, id |-> 0, flags |-> {}, signalled_flags |-> {},
    prev_signalled |-> NULL, next_signalled |-> NULL, lock |-> NULL,
    dma |-> NoDma, command_buffer |-> CommandBuffer0 ]

Hist0 ==
  [ creates |-> 0, allocs |-> 0, adds |-> 0, maps |-> 0, unmaps |-> 0,
    frees |-> 0, subs |-> 0 ]

\* locals of a thread outside a system call; sum adds up the positive
\* consumed sizes of a call and issued tells that the call has stored a
\* command in a command buffer
Loc0 ==
  [ pipe |-> NULL, is_write |-> FALSE, nonblock |-> FALSE, address |-> 0,
    address_end |-> 0, count |-> 0, status |-> 0, ret |-> 0, size |-> 0,
    total |-> 0, sum |-> 0, issued |-> FALSE, intr |-> FALSE, op |-> "none",
    cmd |-> "NONE", cont |-> "idle" ]

\* a conversion that knows no status but the default
error_convert_default_only(status) == -EINVAL

goldfish_pipe_error_convert(status) ==
  CASE status = PIPE_ERROR_AGAIN -> -EAGAIN
    [] status = PIPE_ERROR_NOMEM -> -ENOMEM
    [] status = PIPE_ERROR_IO -> -EIO
    [] OTHER -> -EINVAL

is_page_size_multiple(sz) == sz % PAGE_SIZE = 0

\* a size check whose upper end is exclusive
check_region_size_below_max(size) ==
  IF size < DMA_REGION_MIN_SIZE THEN FALSE
  ELSE IF size >= DMA_REGION_MAX_SIZE THEN FALSE
  ELSE is_page_size_multiple(size)

check_region_size_valid(size) ==
  IF size < DMA_REGION_MIN_SIZE THEN FALSE
  ELSE IF size > DMA_REGION_MAX_SIZE THEN FALSE
  ELSE is_page_size_multiple(size)

----------------------------------------------------------------------------
(* The signalled-pipe list and the registry.  The list operators work on   *)
(* a record [pipe, first]: the pipe objects and dev->first_signalled_pipe. *)

\* the "already in the list" test of signalled_pipes_add_locked
InSignalledList(P, first, o) ==
  \/ P[o].prev_signalled # NULL
  \/ P[o].next_signalled # NULL
  \/ first = o

\* an add that stores the entry's flags over the pipe's instead of ORing
signalled_pipes_add_assign(ls, reg, cap, id, flags) ==
  IF id >= cap THEN ls
  ELSE IF reg[id] = NULL THEN ls
  ELSE
    LET o == reg[id]
        P1 == [ls.pipe EXCEPT ![o].signalled_flags = flags]
    IN IF InSignalledList(P1, ls.first, o)
       THEN [ls EXCEPT !.pipe = P1]
       ELSE
         LET P2 == [P1 EXCEPT ![o].next_signalled = ls.first]
             P3 == IF ls.first # NULL
                   THEN [P2 EXCEPT ![ls.first].prev_signalled = o]
                   ELSE P2
         IN [pipe |-> P3, first |-> o]

signalled_pipes_add_locked(ls, reg, cap, id, flags) ==
  IF id >= cap THEN ls
  ELSE IF reg[id] = NULL THEN ls
  ELSE
    LET o == reg[id]
        P1 == [ls.pipe EXCEPT ![o].signalled_flags = @ \cup flags]
    IN IF InSignalledList(P1, ls.first, o)
       THEN [ls EXCEPT !.pipe = P1]
       ELSE
         LET P2 == [P1 EXCEPT ![o].next_signalled = ls.first]
             P3 == IF ls.first # NULL
                   THEN [P2 EXCEPT ![ls.first].prev_signalled = o]
                   ELSE P2
         IN [pipe |-> P3, first |-> o]

signalled_pipes_remove_locked(ls, o) ==
  LET P0 == ls.pipe
      prv == P0[o].prev_signalled
      nxt == P0[o].next_signalled
      P1 == IF prv # NULL
            THEN [P0 EXCEPT ![prv].next_signalled = P0[o].next_signalled]
            ELSE P0
      P2 == IF nxt # NULL
            THEN [P1 EXCEPT ![nxt].prev_signalled = P1[o].prev_signalled]
            ELSE P1
      f2 == IF o = ls.first THEN P2[o].next_signalled ELSE ls.first
  IN [ pipe |-> [P2 EXCEPT ![o].prev_signalled = NULL,
                            ![o].next_signalled = NULL],
       first |-> f2 ]

\* the body of signalled_pipes_pop_front for a non-empty list: the head's
\* signalled flags are taken and cleared and the head is unlinked
signalled_pipes_pop_front(ls) ==
  LET o == ls.first
      P1 == [ls.pipe EXCEPT ![o].signalled_flags = {}]
      f2 == P1[o].next_signalled
      P2 == IF f2 # NULL THEN [P1 EXCEPT ![f2].prev_signalled = NULL] ELSE P1
  IN [ pipe |-> [P2 EXCEPT ![o].next_signalled = NULL], first |-> f2 ]

\* the loop of goldfish_pipe_interrupt over the first n buffer entries
RECURSIVE AddSignalled(_, _, _, _, _)
AddSignalled(ls, reg, cap, buf, n) ==
  IF n = 0 THEN ls
  ELSE
    LET before == AddSignalled(ls, reg, cap, buf, n - 1)
    IN signalled_pipes_add_locked(before, reg, cap, buf[n].id, buf[n].flags)

\* get_free_pipe_id_locked: [id, pipes, pipes_capacity]; alloc_ok is whether
\* the kcalloc of the grown array succeeds
FreeSlots(reg, cap) == { i \in 0 .. cap - 1 : reg[i] = NULL }

\* a scan that takes the last empty slot instead of the first
get_free_pipe_id_last(reg, cap, alloc_ok) ==
  IF FreeSlots(reg, cap) # {}
  THEN [ id |-> CHOOSE i \in FreeSlots(reg, cap) :
                  \A j \in FreeSlots(reg, cap) : i >= j,
         pipes |-> reg, pipes_capacity |-> cap ]
  ELSE IF ~alloc_ok
  THEN [ id |-> -ENOMEM, pipes |-> reg, pipes_capacity |-> cap ]
  ELSE [ id |-> cap,
         pipes |-> [ i \in 0 .. 2 * cap - 1 |->
                       IF i < cap THEN reg[i] ELSE NULL ],
         pipes_capacity |-> 2 * cap ]

get_free_pipe_id_locked(reg, cap, alloc_ok) ==
  IF FreeSlots(reg, cap) # {}
  THEN [ id |-> CHOOSE i \in FreeSlots(reg, cap) :
                  \A j \in FreeSlots(reg, cap) : i <= j,
         pipes |-> reg, pipes_capacity |-> cap ]
  ELSE IF ~alloc_ok
  THEN [ id |-> -ENOMEM, pipes |-> reg, pipes_capacity |-> cap ]
  ELSE [ id |-> cap,
         pipes |-> [ i \in 0 .. 2 * cap - 1 |->
                       IF i < cap THEN reg[i] ELSE NULL ],
         pipes_capacity |-> 2 * cap ]

----------------------------------------------------------------------------
(* The host.  It is opaque: every status, every consumed size and every    *)
(* batch of signalled pipes it can produce is an input.                    *)

\* the statuses the host stores: a positive one, end of stream, would-block
\* and an error
HostStatus == { 1, 0, PIPE_ERROR_AGAIN, PIPE_ERROR_IO }

\* what the host does to the status field during the doorbell write:
\* nothing, or it stores a status
HostReplies == { << >> } \cup { << s >> : s \in HostStatus }

\* every kind of status the host can store for a transfer: two positive
\* ones, end of stream, the four error codes of the protocol and a
\* negative value that is none of them
StatusReplies ==
  { << >> } \cup { << s >> : s \in { 2, 1, 0, PIPE_ERROR_INVAL,
                                      PIPE_ERROR_AGAIN, PIPE_ERROR_NOMEM,
                                      PIPE_ERROR_IO, -5 } }

\* the flags of one signalled_pipe_buffer entry
WakeFlagSets ==
  SUBSET {PIPE_WAKE_CLOSED, PIPE_WAKE_READ, PIPE_WAKE_WRITE} \ { {} }

\* the ids the host can name: every slot the registry can have, and one more
HostIds == 0 .. MaxPipes

\* the entries the host can write when it uses the flag sets F
SignalledPipeBuffer(F) == [ id : HostIds, flags : F ]

----------------------------------------------------------------------------
(* Small state helpers *)

\* a freed struct goldfish_pipe: the memory keeps the list links, which a
\* stale pointer of the signalled list can still reach
Freed(p) ==
  [ Pipe0 EXCEPT !.prev_signalled = p.prev_signalled,
                 !.next_signalled = p.next_signalled ]

\* threads inside a system call on pipe object o
Inside(o) ==
  { t \in Threads : loc[t].pipe = o /\ pc[t] \notin {"idle", "done"} }

\* a system call returns r to user space
Done(t, r) ==
  /\ pc' = [pc EXCEPT ![t] = "done"]
  /\ loc' = [loc EXCEPT ![t] =
               [ Loc0 EXCEPT !.ret = r, !.pipe = loc[t].pipe,
                             !.op = loc[t].op, !.sum = loc[t].sum,
                             !.is_write = loc[t].is_write,
                             !.nonblock = loc[t].nonblock,
                             !.issued = loc[t].issued ]]

\* a read or write call returns r because a signal interrupted it (intr
\* records that, for observation only)
DoneInterrupted(t, r) ==
  /\ pc' = [pc EXCEPT ![t] = "done"]
  /\ loc' = [loc EXCEPT ![t] =
               [ Loc0 EXCEPT !.ret = r, !.pipe = loc[t].pipe,
                             !.op = loc[t].op, !.sum = loc[t].sum,
                             !.is_write = loc[t].is_write,
                             !.nonblock = loc[t].nonblock,
                             !.issued = loc[t].issued, !.intr = TRUE ]]

\* a command buffer after its answer has been read back: every field but
\* the id is written again before it is read again, and the model forgets
\* the old values
Idle(cb) == [ CommandBuffer0 EXCEPT !.id = cb.id ]

\* a command that is issued without the preset of the status
goldfish_pipe_cmd_no_preset(cb, cmd) == [ cb EXCEPT !.cmd = cmd ]

\* goldfish_pipe_cmd_locked before the doorbell: the command code is
\* stored and the status is preset to PIPE_ERROR_INVAL
goldfish_pipe_cmd_locked(cb, cmd) ==
  [ cb EXCEPT !.cmd = cmd, !.status = PIPE_ERROR_INVAL ]

\* the doorbell write: the host stores a status, or leaves the field alone
Doorbell(cb, reply) ==
  IF reply = << >> THEN cb ELSE [ cb EXCEPT !.status = reply[1] ]

----------------------------------------------------------------------------
(* goldfish_pipe_cmd, called by wait_for_host_signal, goldfish_pipe_poll,  *)
(* goldfish_pipe_dma_release_host and goldfish_pipe_release: loc.cmd is    *)
(* the command and loc.cont the place the caller continues at.             *)

\* a mutex that excludes nobody
MutexFreeAlways(o) == TRUE

\* mutex_lock_interruptible succeeds
MutexFree(o) == pipe[o].lock = NULL

\* mutex_lock_interruptible can return -EINTR only while it has to wait
MutexInterruptible(o) == pipe[o].lock # NULL

GoldfishPipeCmd(t) ==
  /\ pc[t] = "cmd"
  /\ LET o == loc[t].pipe IN
     /\ MutexFree(o)
     /\ pipe' = [pipe EXCEPT
                   ![o].lock = t,
                   ![o].command_buffer =
                      goldfish_pipe_cmd_locked(@, loc[t].cmd)]
  /\ loc' = [loc EXCEPT ![t].issued = TRUE]
  /\ pc' = [pc EXCEPT ![t] = "cmd_back"]
  /\ UNCHANGED << pipes, pipes_capacity, first_signalled_pipe,
                  dma_alloc_total, open_command_params, file, asleep,
                  irq_tasklet, hist >>

\* the doorbell is rung, the status is read back and the mutex dropped;
\* only goldfish_pipe_poll uses the value goldfish_pipe_cmd returns
GoldfishPipeCmdBack(t) ==
  /\ pc[t] = "cmd_back"
  /\ LET o == loc[t].pipe IN
     \E reply \in HostReplies :
       LET cb == Doorbell(pipe[o].command_buffer, reply) IN
       /\ loc' = [loc EXCEPT ![t].status =
                    IF loc[t].cmd = "POLL" THEN cb.status ELSE 0]
       /\ pipe' = [pipe EXCEPT ![o].lock = NULL,
                               ![o].command_buffer = Idle(cb)]
       /\ hist' = [hist EXCEPT
                     ![o].unmaps = @ + (IF cb.cmd = "DMA_HOST_UNMAP"
                                        THEN 1 ELSE 0)]
  /\ pc' = [pc EXCEPT ![t] = loc[t].cont]
  /\ UNCHANGED << pipes, pipes_capacity, first_signalled_pipe,
                  dma_alloc_total, open_command_params, file, asleep,
                  irq_tasklet >>

GoldfishPipeCmdInterrupted(t) ==
  /\ pc[t] = "cmd"
  /\ MutexInterruptible(loc[t].pipe)
  /\ loc' = [loc EXCEPT ![t].status =
               IF loc[t].cmd = "POLL" THEN PIPE_ERROR_IO ELSE 0]
  /\ pc' = [pc EXCEPT ![t] = loc[t].cont]
  /\ UNCHANGED << pipes, pipes_capacity, first_signalled_pipe,
                  dma_alloc_total, open_command_params, pipe, file, asleep,
                  irq_tasklet, hist >>

----------------------------------------------------------------------------
(* goldfish_pipe_open *)

\* open parameters that only the first opener writes
OpenCommandParamsOnce(old, o) ==
  IF old.command_buffer_ptr = NULL
  THEN [ command_buffer_ptr |-> o,
         rw_params_max_count |-> MAX_BUFFERS_PER_COMMAND ]
  ELSE old

\* the stores to dev->buffers->open_command_params: the address of the
\* opener's command buffer (the pipe object stands for it) and the count
OpenCommandParams(old, o) ==
  [ command_buffer_ptr |-> o,
    rw_params_max_count |-> MAX_BUFFERS_PER_COMMAND ]

\* kzalloc of the pipe and __get_free_page of its command buffer succeed
OpenAlloc(t) ==
  /\ pc[t] = "idle"
  /\ \E o \in Objs :
       /\ ~pipe[o].allocated
       /\ pipe' = [pipe EXCEPT ![o] = [Pipe0 EXCEPT !.allocated = TRUE]]
       /\ hist' = [hist EXCEPT ![o] = Hist0]
       /\ loc' = [loc EXCEPT ![t] = [Loc0 EXCEPT !.pipe = o, !.op = "open"]]
  /\ pc' = [pc EXCEPT ![t] = "open_locked"]
  /\ UNCHANGED << pipes, pipes_capacity, first_signalled_pipe,
                  dma_alloc_total, open_command_params, file, asleep,
                  irq_tasklet >>

\* one of the two allocations fails: nothing is left behind
OpenNoMem(t) ==
  /\ pc[t] = "idle"
  /\ pc' = [pc EXCEPT ![t] = "done"]
  /\ loc' = [loc EXCEPT ![t] = [Loc0 EXCEPT !.op = "open", !.ret = -ENOMEM]]
  /\ UNCHANGED << pipes, pipes_capacity, first_signalled_pipe,
                  dma_alloc_total, open_command_params, pipe, file, asleep,
                  irq_tasklet, hist >>

\* the critical section under dev->lock: a slot is taken, the open
\* parameters are written and PIPE_CMD_OPEN is issued
OpenRegister(t) ==
  /\ pc[t] = "open_locked"
  /\ LET o == loc[t].pipe IN
     \E alloc_ok \in BOOLEAN, reply \in HostReplies :
       LET r == get_free_pipe_id_locked(pipes, pipes_capacity, alloc_ok) IN
       IF r.id < 0
       THEN \* err_id_locked
         /\ pipe' = [pipe EXCEPT ![o] = Freed(@)]
         /\ Done(t, r.id)
         /\ UNCHANGED << pipes, pipes_capacity, open_command_params >>
       ELSE
         /\ pipes' = [r.pipes EXCEPT ![r.id] = o]
         /\ pipes_capacity' = r.pipes_capacity
         /\ open_command_params' = OpenCommandParams(open_command_params, o)
         /\ LET cb == Doorbell(goldfish_pipe_cmd_locked(
                        [pipe[o].command_buffer EXCEPT !.id = r.id],
                        "OPEN"), reply)
            IN /\ pipe' = [pipe EXCEPT ![o].id = r.id,
                                       ![o].command_buffer = Idle(cb)]
               /\ loc' = [loc EXCEPT ![t].status = cb.status,
                                      ![t].issued = TRUE]
         /\ pc' = [pc EXCEPT ![t] = "open_unlocked"]
  /\ UNCHANGED << first_signalled_pipe, dma_alloc_total, file, asleep,
                  irq_tasklet, hist >>

\* after the unlock: the status decides between publishing the pipe in
\* file->private_data and the err_cmd path
OpenFinish(t) ==
  /\ pc[t] = "open_unlocked"
  /\ LET o == loc[t].pipe IN
     IF loc[t].status < 0
     THEN /\ pipes' = [pipes EXCEPT ![pipe[o].id] = NULL]
          /\ pipe' = [pipe EXCEPT ![o] = Freed(@)]
          /\ UNCHANGED file
     ELSE /\ pipe' = [pipe EXCEPT ![o].dma = NoDma]
          /\ file' = [file EXCEPT ![o] = "open"]
          /\ UNCHANGED pipes
  /\ Done(t, IF loc[t].status < 0 THEN loc[t].status ELSE 0)
  /\ UNCHANGED << pipes_capacity, first_signalled_pipe, dma_alloc_total,
                  open_command_params, asleep, irq_tasklet, hist >>

\* the system call returns to user space
Return(t) ==
  /\ pc[t] = "done"
  /\ pc' = [pc EXCEPT ![t] = "idle"]
  /\ loc' = [loc EXCEPT ![t] = Loc0]
  /\ UNCHANGED << pipes, pipes_capacity, first_signalled_pipe,
                  dma_alloc_total, open_command_params, pipe, file, asleep,
                  irq_tasklet, hist >>

----------------------------------------------------------------------------
(* goldfish_pipe_release.  The kernel calls it once, when the last         *)
(* reference to the file is dropped: no system call is inside the pipe     *)
(* then and none can start.                                                *)

\* a release that never finds a region to unmap
NeedsHostUnmapNever(dma) == FALSE

\* goldfish_pipe_dma_release_host: if (!dma) return; if (dma->dma_vaddr)
NeedsHostUnmap(dma) == dma.present /\ dma.dma_vaddr

\* goldfish_pipe_dma_release_host up to its goldfish_pipe_cmd, or, without
\* a materialized region, the goldfish_pipe_cmd(PIPE_CMD_CLOSE) after it
ReleaseBegin(t) ==
  /\ pc[t] = "idle"
  /\ \E o \in Objs :
       /\ file[o] = "open"
       /\ Inside(o) = {}
       /\ file' = [file EXCEPT ![o] = "releasing"]
       /\ IF NeedsHostUnmap(pipe[o].dma)
          THEN /\ pipe' = [pipe EXCEPT
                     ![o].command_buffer.dma_paddr = pipe[o].dma.phys_begin,
                     ![o].command_buffer.sz = pipe[o].dma.dma_size]
               /\ loc' = [loc EXCEPT ![t] =
                     [Loc0 EXCEPT !.pipe = o, !.op = "release",
                                  !.cmd = "DMA_HOST_UNMAP",
                                  !.cont = "rel_close"]]
          ELSE /\ UNCHANGED pipe
               /\ loc' = [loc EXCEPT ![t] =
                     [Loc0 EXCEPT !.pipe = o, !.op = "release",
                                  !.cmd = "CLOSE",
                                  !.cont = "rel_unregister"]]
  /\ pc' = [pc EXCEPT ![t] = "cmd"]
  /\ UNCHANGED << pipes, pipes_capacity, first_signalled_pipe,
                  dma_alloc_total, open_command_params, asleep, irq_tasklet,
                  hist >>

\* goldfish_pipe_cmd(pipe, PIPE_CMD_CLOSE) after the unmap
ReleaseClose(t) ==
  /\ pc[t] = "rel_close"
  /\ loc' = [loc EXCEPT ![t].cmd = "CLOSE", ![t].cont = "rel_unregister"]
  /\ pc' = [pc EXCEPT ![t] = "cmd"]
  /\ UNCHANGED << pipes, pipes_capacity, first_signalled_pipe,
                  dma_alloc_total, open_command_params, pipe, file, asleep,
                  irq_tasklet, hist >>

\* the critical section under dev->lock: the slot is cleared and the pipe
\* is taken out of the signalled list
ReleaseUnregister(t) ==
  /\ pc[t] = "rel_unregister"
  /\ LET o == loc[t].pipe
         ls == signalled_pipes_remove_locked(
                 [pipe |-> pipe, first |-> first_signalled_pipe], o)
     IN /\ pipes' = [pipes EXCEPT ![pipe[o].id] = NULL]
        /\ pipe' = ls.pipe
        /\ first_signalled_pipe' = ls.first
  /\ pc' = [pc EXCEPT ![t] = "rel_dma_guest"]
  /\ UNCHANGED << pipes_capacity, dma_alloc_total, open_command_params,
                  file, asleep, loc, irq_tasklet, hist >>

\* goldfish_pipe_dma_release_guest: dma_free_coherent and the read of
\* dev->dma_alloc_total
ReleaseDmaGuest(t) ==
  /\ pc[t] = "rel_dma_guest"
  /\ LET o == loc[t].pipe IN
     IF pipe[o].dma.present /\ pipe[o].dma.dma_vaddr
     THEN /\ hist' = [hist EXCEPT ![o].frees = @ + 1]
          /\ loc' = [loc EXCEPT ![t].total = dma_alloc_total]
          /\ pc' = [pc EXCEPT ![t] = "rel_total"]
     ELSE /\ pc' = [pc EXCEPT ![t] = "rel_free"]
          /\ UNCHANGED << hist, loc >>
  /\ UNCHANGED << pipes, pipes_capacity, first_signalled_pipe,
                  dma_alloc_total, open_command_params, pipe, file, asleep,
                  irq_tasklet >>

\* the write of dev->dma_alloc_total -= dma->dma_size
ReleaseDmaTotal(t) ==
  /\ pc[t] = "rel_total"
  /\ dma_alloc_total' = loc[t].total - pipe[loc[t].pipe].dma.dma_size
  /\ hist' = [hist EXCEPT ![loc[t].pipe].subs = @ + 1]
  /\ pc' = [pc EXCEPT ![t] = "rel_free"]
  /\ UNCHANGED << pipes, pipes_capacity, first_signalled_pipe,
                  open_command_params, pipe, file, asleep, loc, irq_tasklet >>

\* kfree(pipe->dma), free_page(command_buffer), kfree(pipe)
ReleaseFree(t) ==
  /\ pc[t] = "rel_free"
  /\ LET o == loc[t].pipe IN
     /\ pipe' = [pipe EXCEPT ![o] = Freed(@)]
     /\ file' = [file EXCEPT ![o] = "none"]
  /\ Done(t, 0)
  /\ UNCHANGED << pipes, pipes_capacity, first_signalled_pipe,
                  dma_alloc_total, open_command_params, asleep, irq_tasklet,
                  hist >>

----------------------------------------------------------------------------
(* goldfish_pipe_interrupt and goldfish_interrupt_task *)

\* the tasklet before its first run; seen is the part of the signal buffer
\* the last run of the handler read and the count it was told, which stay
\* in the buffer page (kept in the state only where a run is observed)
NoBatch == [ count |-> 0, buf |-> << >> ]

Tasklet0 ==
  [ scheduled |-> FALSE, pc |-> "idle", pipe |-> NULL, wakes |-> {},
    seen |-> NoBatch ]

\* one run of the handler with a non-zero count over a buffer of len
\* entries: a count above len is cut to len, the entries are added under
\* dev->lock and the tasklet is scheduled
InterruptBatch(F, len, keep) ==
  /\ \E count \in 1 .. len + 1 :
       LET n == Min(count, len) IN
       \E buf \in [1 .. n -> SignalledPipeBuffer(F)] :
         LET ls == AddSignalled(
                     [pipe |-> pipe, first |-> first_signalled_pipe],
                     pipes, pipes_capacity, buf, n)
         IN /\ pipe' = ls.pipe
            /\ first_signalled_pipe' = ls.first
            /\ irq_tasklet' =
                 [irq_tasklet EXCEPT
                    !.scheduled = TRUE,
                    !.seen = IF keep THEN [count |-> count, buf |-> buf]
                             ELSE @]
  /\ UNCHANGED << pipes, pipes_capacity, dma_alloc_total,
                  open_command_params, file, asleep, pc, loc, hist >>

\* the handler where the buffer holds SignalBufferLen entries
Interrupt(F) == InterruptBatch(F, SignalBufferLen, FALSE)

\* the softirq starts the scheduled tasklet
TaskletRun ==
  /\ irq_tasklet.scheduled
  /\ irq_tasklet.pc = "idle"
  /\ irq_tasklet' = [irq_tasklet EXCEPT !.scheduled = FALSE, !.pc = "pop"]
  /\ UNCHANGED << pipes, pipes_capacity, first_signalled_pipe,
                  dma_alloc_total, open_command_params, pipe, file, asleep,
                  pc, loc, hist >>

\* signalled_pipes_pop_front, under dev->lock
TaskletPop ==
  /\ irq_tasklet.pc = "pop"
  /\ IF first_signalled_pipe = NULL
     THEN /\ irq_tasklet' = [irq_tasklet EXCEPT !.pc = "idle"]
          /\ UNCHANGED << pipe, first_signalled_pipe >>
     ELSE LET o == first_signalled_pipe
              ls == signalled_pipes_pop_front(
                      [pipe |-> pipe, first |-> first_signalled_pipe])
          IN /\ irq_tasklet' = [irq_tasklet EXCEPT
                                  !.pc = "flags", !.pipe = o,
                                  !.wakes = pipe[o].signalled_flags]
             /\ pipe' = ls.pipe
             /\ first_signalled_pipe' = ls.first
  /\ UNCHANGED << pipes, pipes_capacity, dma_alloc_total,
                  open_command_params, file, asleep, pc, loc, hist >>

\* flags with the precedence the other way round: a wake signal is served
\* and the closed signal that came with it is dropped
TaskletNewFlagsWakeFirst(flags, wakes) ==
  IF wakes \cap {PIPE_WAKE_READ, PIPE_WAKE_WRITE} # {}
  THEN (flags \ (IF PIPE_WAKE_READ \in wakes
                 THEN {BIT_WAKE_ON_READ} ELSE {}))
         \ (IF PIPE_WAKE_WRITE \in wakes THEN {BIT_WAKE_ON_WRITE} ELSE {})
  ELSE IF PIPE_WAKE_CLOSED \in wakes THEN {BIT_CLOSED_ON_HOST} ELSE flags

\* flags whose wake branch stores the wait bits that are left instead of
\* clearing the signalled ones
TaskletNewFlagsStoreWaits(flags, wakes) ==
  IF PIPE_WAKE_CLOSED \in wakes
  THEN {BIT_CLOSED_ON_HOST}
  ELSE ((flags \cap {BIT_WAKE_ON_READ, BIT_WAKE_ON_WRITE})
          \ (IF PIPE_WAKE_READ \in wakes THEN {BIT_WAKE_ON_READ} ELSE {}))
         \ (IF PIPE_WAKE_WRITE \in wakes THEN {BIT_WAKE_ON_WRITE} ELSE {})

\* flags that the tasklet has not written by the time it wakes the queue
TaskletNewFlagsKeep(flags, wakes) == flags

\* flags whose wake branch clears both wait bits whichever was signalled
TaskletNewFlagsClearBoth(flags, wakes) ==
  IF PIPE_WAKE_CLOSED \in wakes
  THEN {BIT_CLOSED_ON_HOST}
  ELSE flags \ {BIT_WAKE_ON_READ, BIT_WAKE_ON_WRITE}

\* the new value of pipe->flags for the popped pipe
TaskletNewFlags(flags, wakes) ==
  IF PIPE_WAKE_CLOSED \in wakes
  THEN {BIT_CLOSED_ON_HOST}
  ELSE (flags \ (IF PIPE_WAKE_READ \in wakes
                 THEN {BIT_WAKE_ON_READ} ELSE {}))
         \ (IF PIPE_WAKE_WRITE \in wakes THEN {BIT_WAKE_ON_WRITE} ELSE {})

\* the store to, or the clear_bit calls on, pipe->flags
TaskletFlags ==
  /\ irq_tasklet.pc = "flags"
  /\ pipe' = [pipe EXCEPT ![irq_tasklet.pipe].flags =
                TaskletNewFlags(@, irq_tasklet.wakes)]
  /\ irq_tasklet' = [irq_tasklet EXCEPT !.pc = "wake"]
  /\ UNCHANGED << pipes, pipes_capacity, first_signalled_pipe,
                  dma_alloc_total, open_command_params, file, asleep, pc,
                  loc, hist >>

\* a wake-up that wakes nobody
WakeUpNobody(o) == asleep

\* wake_up_interruptible(&pipe->wake_queue)
WakeUp(o) == asleep \ { t \in Threads : loc[t].pipe = o }

TaskletWake ==
  /\ irq_tasklet.pc = "wake"
  /\ asleep' = WakeUp(irq_tasklet.pipe)
  /\ irq_tasklet' = [irq_tasklet EXCEPT
                       !.pc = "pop", !.pipe = NULL, !.wakes = {}]
  /\ UNCHANGED << pipes, pipes_capacity, first_signalled_pipe,
                  dma_alloc_total, open_command_params, pipe, file, pc, loc,
                  hist >>

----------------------------------------------------------------------------
(* The transfer engine: page pinning and the descriptor builder *)

\* address & PAGE_MASK and address & ~PAGE_MASK
PageOf(address) == address - (address % PAGE_SIZE)
OffsetOf(address) == address % PAGE_SIZE

\* goldfish_pin_user_pages: got is what get_user_pages_fast returns
RequestedPages(first_page, last_page) ==
  Min(((last_page - first_page) \div PAGE_SIZE) + 1, MAX_BUFFERS_PER_COMMAND)

goldfish_pin_user_pages(first_page, last_page, last_page_size, got) ==
  LET all == ((last_page - first_page) \div PAGE_SIZE) + 1
      requested_pages == RequestedPages(first_page, last_page)
      size0 == IF all > MAX_BUFFERS_PER_COMMAND
               THEN PAGE_SIZE ELSE last_page_size
  IN IF got <= 0 THEN [ ret |-> -EFAULT, iter_last_page_size |-> size0 ]
     ELSE [ ret |-> got,
            iter_last_page_size |->
              IF got < requested_pages THEN PAGE_SIZE ELSE size0 ]

\* populate_rw_params: pages is the sequence of the physical addresses of
\* the pinned pages; the result is the sequence of (ptr, size) descriptors
RECURSIVE MergePages(_, _, _, _)
MergePages(pages, i, iter_last_page_size, bufs) ==
  IF i > Len(pages) THEN bufs
  ELSE
    LET xaddr == pages[i]
        xaddr_prev == pages[i - 1]
        size_on_page == IF i = Len(pages)
                        THEN iter_last_page_size ELSE PAGE_SIZE
        n == Len(bufs)
    IN IF xaddr = xaddr_prev + PAGE_SIZE
       THEN MergePages(pages, i + 1, iter_last_page_size,
                       [bufs EXCEPT ![n].size = @ + size_on_page])
       ELSE MergePages(pages, i + 1, iter_last_page_size,
                       Append(bufs, [ptr |-> xaddr, size |-> size_on_page]))

\* a builder that never merges: one descriptor for every page
populate_rw_params_unmerged(pages, address, address_end, first_page, last_page, iter_last_page_size) ==
  [ i \in 1 .. Len(pages) |->
      [ ptr |-> pages[i] + (IF i = 1 THEN OffsetOf(address) ELSE 0),
        size |-> IF i = 1
                 THEN (IF first_page = last_page THEN address_end - address
                       ELSE PAGE_SIZE - OffsetOf(address))
                 ELSE IF i = Len(pages) THEN iter_last_page_size
                 ELSE PAGE_SIZE ] ]

populate_rw_params(pages, address, address_end, first_page, last_page, iter_last_page_size) ==
  LET size_on_page == IF first_page = last_page
                      THEN address_end - address
                      ELSE PAGE_SIZE - OffsetOf(address)
  IN MergePages(pages, 2, iter_last_page_size,
                << [ptr |-> pages[1] + OffsetOf(address),
                    size |-> size_on_page] >>)

RECURSIVE SumSizes(_)
SumSizes(bufs) ==
  IF bufs = << >> THEN 0 ELSE bufs[1].size + SumSizes(Tail(bufs))

----------------------------------------------------------------------------
(* Inputs of read and write *)

\* the largest chunk the host is let to consume one half of
MaxPartial == 10

\* user buffers (address, length): an empty one, and ten bytes that lie
\* across a page boundary
UserBuffers == { << 65536, 0 >>, << 65536 + 4090, 10 >> }

\* where the pinned pages lie: next to each other or apart
PhysLayouts(n) ==
  { [ i \in 1 .. n |-> 1048576 + (i - 1) * PAGE_SIZE ],
    [ i \in 1 .. n |-> 1048576 + 2 * (i - 1) * PAGE_SIZE ] }

\* more ways the pinned pages can lie: next to each other, apart, next to
\* each other in pairs, in descending order, and one page mapped n times
PopulateLayouts(n) ==
  { [ i \in 1 .. n |-> 1048576 + (i - 1) * PAGE_SIZE ],
    [ i \in 1 .. n |-> 1048576 + 2 * (i - 1) * PAGE_SIZE ],
    [ i \in 1 .. n |-> 1048576 + ((i - 1) + ((i - 1) \div 2)) * PAGE_SIZE ],
    [ i \in 1 .. n |-> 1048576 + (n - i) * PAGE_SIZE ],
    [ i \in 1 .. n |-> 1048576 ] }

\* user buffers for the descriptor builder: inside one page, across a page
\* boundary, whole pages, three pages from an odd offset, forty pages, and
\* one page more than a command can describe
PopulateBuffers ==
  { << 65536 + 7, 9 >>, << 65536 + 4090, 10 >>, << 65536, 2 * PAGE_SIZE >>,
    << 65536 + 1, 2 * PAGE_SIZE + 5 >>,
    << 65536 + 100, 39 * PAGE_SIZE >>,
    << 65536 + 100, MAX_BUFFERS_PER_COMMAND * PAGE_SIZE >> }

\* the most pages get_user_pages_fast pins in one call
MaxPinned == 40

\* what get_user_pages_fast can return for a request of n pages: none, one
\* or all of them, up to MaxPinned
PinOutcomes(n) == { 0, 1, Min(n, MaxPinned) }

\* what the host can store in consumed_size for a command of n bytes
HostConsumed(n) ==
  { -1, 0, n } \cup (IF 2 <= n /\ n <= MaxPartial THEN { n \div 2 } ELSE {})

----------------------------------------------------------------------------
(* goldfish_pipe_read_write *)

\* a return statement that forgets the bytes already transferred
LoopResultRetOnly(count, ret) == ret

\* a return statement that prefers the error to the bytes transferred
LoopResultErrorFirst(count, ret) ==
  IF ret < 0 THEN ret ELSE IF count > 0 THEN count ELSE ret

\* the return statement after the loop
LoopResult(count, ret) == IF count > 0 THEN count ELSE ret

\* entry checks that look at the length first
ReadWriteChecksLengthFirst(closed, bufflen, access_ok) ==
  IF bufflen = 0 THEN 0
  ELSE IF closed THEN -EIO
  ELSE IF ~access_ok THEN -EFAULT
  ELSE 1

\* the checks before the loop: the value returned at once, or 1 when the
\* call goes on to the loop
ReadWriteChecks(closed, bufflen, access_ok) ==
  IF closed THEN -EIO
  ELSE IF bufflen = 0 THEN 0
  ELSE IF ~access_ok THEN -EFAULT
  ELSE 1

\* the start of a call; W, NB and UB are the directions, the O_NONBLOCK
\* settings and the user buffers of the callers
ReadWriteBegin(t, W, NB, UB) ==
  /\ pc[t] = "idle"
  /\ \E o \in Objs, is_write \in W, nonblock \in NB,
        ub \in UB, access_ok \in BOOLEAN :
       /\ file[o] = "open"
       /\ LET l0 == [Loc0 EXCEPT !.pipe = o, !.op = "read_write",
                                 !.is_write = is_write,
                                 !.nonblock = nonblock]
              r == ReadWriteChecks(BIT_CLOSED_ON_HOST \in pipe[o].flags,
                                   ub[2], access_ok)
          IN IF r <= 0
             THEN /\ pc' = [pc EXCEPT ![t] = "done"]
                  /\ loc' = [loc EXCEPT ![t] = [l0 EXCEPT !.ret = r]]
             ELSE /\ pc' = [pc EXCEPT ![t] = "transfer"]
                  /\ loc' = [loc EXCEPT ![t] =
                               [l0 EXCEPT !.address = ub[1],
                                          !.address_end = ub[1] + ub[2],
                                          !.ret = -EINVAL]]
  /\ UNCHANGED << pipes, pipes_capacity, first_signalled_pipe,
                  dma_alloc_total, open_command_params, pipe, file, asleep,
                  irq_tasklet, hist >>

\* transfer_max_buffers up to the doorbell: the mutex is taken, the pages
\* are pinned, the descriptors are built and the command is stored
TransferMaxBuffersFrom(t, rich) ==
  /\ pc[t] = "transfer"
  /\ LET o == loc[t].pipe
         address == loc[t].address
         address_end == loc[t].address_end
         first_page == PageOf(address)
         last_page == PageOf(address_end - 1)
         last_page_size == OffsetOf(address_end - 1) + 1
     IN
     /\ MutexFree(o)
     /\ \E got \in PinOutcomes(RequestedPages(first_page, last_page)) :
          LET pin == goldfish_pin_user_pages(first_page, last_page,
                                             last_page_size, got)
          IN IF pin.ret < 0
             THEN /\ Done(t, LoopResult(loc[t].count, pin.ret))
                  /\ UNCHANGED pipe
             ELSE \E pages \in (IF rich THEN PopulateLayouts(pin.ret)
                                ELSE PhysLayouts(pin.ret)) :
                    LET bufs == populate_rw_params(pages, address,
                                  address_end, first_page, last_page,
                                  pin.iter_last_page_size)
                    IN /\ pipe' = [pipe EXCEPT
                             ![o].lock = t,
                             ![o].command_buffer =
                                [ goldfish_pipe_cmd_locked(@,
                                    IF loc[t].is_write
                                    THEN "WRITE" ELSE "READ")
                                  EXCEPT !.buffers_count = Len(bufs),
                                         !.buffers_bytes = SumSizes(bufs) ]]
                       /\ pc' = [pc EXCEPT ![t] = "transfer_back"]
                       /\ loc' = [loc EXCEPT ![t].issued = TRUE]
  /\ UNCHANGED << pipes, pipes_capacity, first_signalled_pipe,
                  dma_alloc_total, open_command_params, file, asleep,
                  irq_tasklet, hist >>

\* the pinned pages lie next to each other or apart
TransferMaxBuffers(t) == TransferMaxBuffersFrom(t, FALSE)

\* mutex_lock_interruptible fails in transfer_max_buffers
TransferInterrupted(t) ==
  /\ pc[t] = "transfer"
  /\ MutexInterruptible(loc[t].pipe)
  /\ DoneInterrupted(t, LoopResult(loc[t].count, -ERESTARTSYS))
  /\ UNCHANGED << pipes, pipes_capacity, first_signalled_pipe,
                  dma_alloc_total, open_command_params, pipe, file, asleep,
                  irq_tasklet, hist >>

\* the byte count after one command
NewCount(count, consumed_size) ==
  IF consumed_size > 0 THEN count + consumed_size ELSE count

\* a loop that waits for the host whatever O_NONBLOCK says
LoopStepAlwaysWaits(l, status, count, address) ==
  IF status > 0
  THEN IF address < l.address_end
       THEN [ pc |-> "transfer", ret |-> 0 ]
       ELSE [ pc |-> "done", ret |-> 0 ]
  ELSE IF status = 0 THEN [ pc |-> "done", ret |-> 0 ]
  ELSE IF count > 0 THEN [ pc |-> "done", ret |-> 0 ]
  ELSE IF status # PIPE_ERROR_AGAIN
  THEN [ pc |-> "done", ret |-> goldfish_pipe_error_convert(status) ]
  ELSE [ pc |-> "wait_set", ret |-> 0 ]

\* what the loop does with the status of one command: the next place of
\* the thread and the value of ret
LoopStep(l, status, count, address) ==
  IF status > 0
  THEN IF address < l.address_end
       THEN [ pc |-> "transfer", ret |-> 0 ]
       ELSE [ pc |-> "done", ret |-> 0 ]
  ELSE IF status = 0 THEN [ pc |-> "done", ret |-> 0 ]
  ELSE IF count > 0 THEN [ pc |-> "done", ret |-> 0 ]
  ELSE IF status # PIPE_ERROR_AGAIN \/ l.nonblock
  THEN [ pc |-> "done", ret |-> goldfish_pipe_error_convert(status) ]
  ELSE [ pc |-> "wait_set", ret |-> 0 ]

\* transfer_max_buffers from the doorbell on (the host stores a status and
\* the consumed size), and the rest of the loop body
TransferBackFrom(t, R) ==
  /\ pc[t] = "transfer_back"
  /\ \E reply \in R,
        consumed \in
          HostConsumed(pipe[loc[t].pipe].command_buffer.buffers_bytes) :
     LET o == loc[t].pipe
         cb == [ Doorbell(pipe[o].command_buffer, reply)
                 EXCEPT !.consumed_size = consumed ]
         consumed_size == cb.consumed_size
         status == cb.status
         count == NewCount(loc[t].count, consumed_size)
         address == loc[t].address + (count - loc[t].count)
         sum == loc[t].sum + Max(consumed_size, 0)
         step == LoopStep(loc[t], status, count, address)
     IN /\ pipe' = [pipe EXCEPT ![o].lock = NULL,
                                ![o].command_buffer = Idle(cb)]
        /\ pc' = [pc EXCEPT ![t] = step.pc]
        /\ loc' = [loc EXCEPT ![t] =
             IF step.pc = "done"
             THEN [ Loc0 EXCEPT !.pipe = o, !.op = "read_write",
                                !.is_write = loc[t].is_write,
                                !.nonblock = loc[t].nonblock,
                                !.issued = TRUE,
                                !.sum = sum, !.status = status,
                                !.ret = LoopResult(count, step.ret) ]
             ELSE [ loc[t] EXCEPT !.count = count, !.address = address,
                                  !.sum = sum, !.status = status,
                                  !.ret = 0 ]]
  /\ UNCHANGED << pipes, pipes_capacity, first_signalled_pipe,
                  dma_alloc_total, open_command_params, file, asleep,
                  irq_tasklet, hist >>

\* the host stores one of the statuses of HostStatus, or none
TransferBack(t) == TransferBackFrom(t, HostReplies)

----------------------------------------------------------------------------
(* wait_for_host_signal *)

WakeBit(is_write) == IF is_write THEN BIT_WAKE_ON_WRITE ELSE BIT_WAKE_ON_READ

\* set_bit(wake_bit, &pipe->flags), then goldfish_pipe_cmd is entered
WaitSetBit(t) ==
  /\ pc[t] = "wait_set"
  /\ pipe' = [pipe EXCEPT ![loc[t].pipe].flags =
                @ \cup {WakeBit(loc[t].is_write)}]
  /\ loc' = [loc EXCEPT
               ![t].cmd = IF loc[t].is_write
                          THEN "WAKE_ON_WRITE" ELSE "WAKE_ON_READ",
               ![t].cont = "wait_while"]
  /\ pc' = [pc EXCEPT ![t] = "cmd"]
  /\ UNCHANGED << pipes, pipes_capacity, first_signalled_pipe,
                  dma_alloc_total, open_command_params, file, asleep,
                  irq_tasklet, hist >>

\* while (test_bit(wake_bit, &pipe->flags)); when the bit is clear the wait
\* returns 0 and the loop of goldfish_pipe_read_write calls
\* transfer_max_buffers again
WaitWhile(t) ==
  /\ pc[t] = "wait_while"
  /\ IF WakeBit(loc[t].is_write) \in pipe[loc[t].pipe].flags
     THEN /\ pc' = [pc EXCEPT ![t] = "wait_event"]
          /\ UNCHANGED loc
     ELSE /\ pc' = [pc EXCEPT ![t] = "transfer"]
          /\ loc' = [loc EXCEPT ![t].status = 0, ![t].cmd = "NONE",
                                ![t].cont = "idle"]
  /\ UNCHANGED << pipes, pipes_capacity, first_signalled_pipe,
                  dma_alloc_total, open_command_params, pipe, file, asleep,
                  irq_tasklet, hist >>

\* wait_event_interruptible: the condition is tested; the thread sleeps
\* while the bit is set and goes on when it finds the bit clear
WaitEvent(t) ==
  /\ pc[t] = "wait_event"
  /\ t \notin asleep
  /\ IF WakeBit(loc[t].is_write) \in pipe[loc[t].pipe].flags
     THEN /\ asleep' = asleep \cup {t}
          /\ UNCHANGED pc
     ELSE /\ pc' = [pc EXCEPT ![t] = "wait_closed"]
          /\ UNCHANGED asleep
  /\ UNCHANGED << pipes, pipes_capacity, first_signalled_pipe,
                  dma_alloc_total, open_command_params, pipe, file, loc,
                  irq_tasklet, hist >>

\* a signal is pending while the condition is false: the wait returns
\* -ERESTARTSYS and so does the system call
WaitEventInterrupted(t) ==
  /\ pc[t] = "wait_event"
  /\ WakeBit(loc[t].is_write) \in pipe[loc[t].pipe].flags
  /\ asleep' = asleep \ {t}
  /\ DoneInterrupted(t, -ERESTARTSYS)
  /\ UNCHANGED << pipes, pipes_capacity, first_signalled_pipe,
                  dma_alloc_total, open_command_params, pipe, file,
                  irq_tasklet, hist >>

\* if (test_bit(BIT_CLOSED_ON_HOST, &pipe->flags)) return -EIO
WaitClosed(t) ==
  /\ pc[t] = "wait_closed"
  /\ IF BIT_CLOSED_ON_HOST \in pipe[loc[t].pipe].flags
     THEN Done(t, -EIO)
     ELSE /\ pc' = [pc EXCEPT ![t] = "wait_while"]
          /\ UNCHANGED loc
  /\ UNCHANGED << pipes, pipes_capacity, first_signalled_pipe,
                  dma_alloc_total, open_command_params, pipe, file, asleep,
                  irq_tasklet, hist >>

----------------------------------------------------------------------------
(* goldfish_pipe_poll *)

PollBegin(t) ==
  /\ pc[t] = "idle"
  /\ \E o \in Objs :
       /\ file[o] = "open"
       /\ loc' = [loc EXCEPT ![t] =
                    [Loc0 EXCEPT !.pipe = o, !.op = "poll", !.cmd = "POLL",
                                 !.cont = "poll_mask"]]
  /\ pc' = [pc EXCEPT ![t] = "cmd"]
  /\ UNCHANGED << pipes, pipes_capacity, first_signalled_pipe,
                  dma_alloc_total, open_command_params, pipe, file, asleep,
                  irq_tasklet, hist >>

\* the mask: PIPE_POLL_IN, PIPE_POLL_OUT and PIPE_POLL_HUP are bits 0, 1 and
\* 2 of the status; POLLIN | POLLRDNORM is 65, POLLOUT | POLLWRNORM is 260,
\* POLLHUP is 16 and POLLERR is 8
PollMask(status, closed) ==
  (IF status % 2 = 1 THEN 65 ELSE 0)
  + (IF (status \div 2) % 2 = 1 THEN 260 ELSE 0)
  + (IF (status \div 4) % 2 = 1 THEN 16 ELSE 0)
  + (IF closed THEN 8 ELSE 0)

PollMaskStep(t) ==
  /\ pc[t] = "poll_mask"
  /\ Done(t, IF loc[t].status < 0 THEN -ERESTARTSYS
             ELSE PollMask(loc[t].status,
                           BIT_CLOSED_ON_HOST \in pipe[loc[t].pipe].flags))
  /\ UNCHANGED << pipes, pipes_capacity, first_signalled_pipe,
                  dma_alloc_total, open_command_params, pipe, file, asleep,
                  irq_tasklet, hist >>

----------------------------------------------------------------------------
(* The DMA region: GOLDFISH_DMA_IOC_CREATE_REGION and mmap *)

\* sizes a caller can ask for
DmaSizes ==
  { 0, PAGE_SIZE - 1, PAGE_SIZE, DMA_REGION_MAX_SIZE,
    DMA_REGION_MAX_SIZE + 1 }

\* the physical address dma_alloc_coherent returns for the region of pipe
\* object o: the regions of different pipes do not overlap
DmaPhysBases(o) == { 2 * o * DMA_REGION_MAX_SIZE }

\* goldfish_dma_ioctl_create_region and goldfish_pipe_dma_create_region up
\* to the mutex: copy_from_user, the size check, the kzalloc of the context
CreateRegionBegin(t, S) ==
  /\ pc[t] = "idle"
  /\ \E o \in Objs, size \in S, copy_ok \in BOOLEAN, alloc_ok \in BOOLEAN :
       /\ file[o] = "open"
       /\ LET l0 == [Loc0 EXCEPT !.pipe = o, !.op = "create_region",
                                 !.size = size]
          IN IF ~copy_ok
             THEN /\ pc' = [pc EXCEPT ![t] = "done"]
                  /\ loc' = [loc EXCEPT ![t] = [l0 EXCEPT !.ret = -EFAULT,
                                                          !.size = 0]]
             ELSE IF ~check_region_size_valid(size)
             THEN /\ pc' = [pc EXCEPT ![t] = "done"]
                  /\ loc' = [loc EXCEPT ![t] = [l0 EXCEPT !.ret = -EINVAL]]
             ELSE IF ~alloc_ok
             THEN /\ pc' = [pc EXCEPT ![t] = "done"]
                  /\ loc' = [loc EXCEPT ![t] = [l0 EXCEPT !.ret = -ENOMEM]]
             ELSE /\ pc' = [pc EXCEPT ![t] = "create_lock"]
                  /\ loc' = [loc EXCEPT ![t] = l0]
  /\ UNCHANGED << pipes, pipes_capacity, first_signalled_pipe,
                  dma_alloc_total, open_command_params, pipe, file, asleep,
                  irq_tasklet, hist >>

\* a test that never finds a region
RegionExistsNever(dma) == FALSE

\* if (pipe->dma)
RegionExists(dma) == dma.present

\* mutex_lock_interruptible(&pipe->lock) and the test of pipe->dma
CreateRegionLock(t) ==
  /\ pc[t] = "create_lock"
  /\ LET o == loc[t].pipe IN
     /\ MutexFree(o)
     /\ IF RegionExists(pipe[o].dma)
        THEN /\ Done(t, -EBUSY)
             /\ UNCHANGED pipe
        ELSE /\ pipe' = [pipe EXCEPT ![o].lock = t]
             /\ pc' = [pc EXCEPT ![t] = "create_set"]
             /\ UNCHANGED loc
  /\ UNCHANGED << pipes, pipes_capacity, first_signalled_pipe,
                  dma_alloc_total, open_command_params, file, asleep,
                  irq_tasklet, hist >>

CreateRegionInterrupted(t) ==
  /\ pc[t] = "create_lock"
  /\ MutexInterruptible(loc[t].pipe)
  /\ Done(t, -ERESTARTSYS)
  /\ UNCHANGED << pipes, pipes_capacity, first_signalled_pipe,
                  dma_alloc_total, open_command_params, pipe, file, asleep,
                  irq_tasklet, hist >>

\* the context is filled in and stored in pipe->dma; the mutex is dropped
CreateRegionSet(t) ==
  /\ pc[t] = "create_set"
  /\ pipe' = [pipe EXCEPT
                ![loc[t].pipe].dma =
                   [DmaContext0 EXCEPT !.dma_size = loc[t].size],
                ![loc[t].pipe].lock = NULL]
  /\ hist' = [hist EXCEPT ![loc[t].pipe].creates = @ + 1]
  /\ Done(t, 0)
  /\ UNCHANGED << pipes, pipes_capacity, first_signalled_pipe,
                  dma_alloc_total, open_command_params, file, asleep,
                  irq_tasklet >>

----------------------------------------------------------------------------
(* goldfish_dma_mmap *)

\* a test that never finds the region materialized
MaterializedNever(dma) == FALSE

\* goldfish_pipe_dma_alloc_locked finds the region materialized
Materialized(dma) == dma.dma_vaddr

\* goldfish_dma_mmap up to the read of dev->dma_alloc_total: the mutex, the
\* size check of goldfish_dma_mmap_locked, and
\* goldfish_pipe_dma_alloc_locked up to its dma_alloc_coherent.  A pipe
\* without a context makes goldfish_pipe_dma_alloc_locked read through a
\* null pointer: the thread dies in the kernel with the mutex held.
MmapBegin(t, S) ==
  /\ pc[t] = "idle"
  /\ \E o \in Objs, sz_requested \in S, alloc_ok \in BOOLEAN,
        remap_ok \in BOOLEAN :
     \E phys \in DmaPhysBases(o) :
       /\ file[o] = "open"
       /\ MutexFree(o)
       /\ LET l0 == [Loc0 EXCEPT !.pipe = o, !.op = "mmap"]
              dma == pipe[o].dma
          IN IF ~check_region_size_valid(sz_requested)
             THEN /\ pc' = [pc EXCEPT ![t] = "done"]
                  /\ loc' = [loc EXCEPT ![t] = [l0 EXCEPT !.ret = -EINVAL]]
                  /\ UNCHANGED << pipe, hist >>
             ELSE IF ~dma.present
             THEN /\ pc' = [pc EXCEPT ![t] = "oops"]
                  /\ loc' = [loc EXCEPT ![t] = l0]
                  /\ pipe' = [pipe EXCEPT ![o].lock = t]
                  /\ UNCHANGED hist
             ELSE IF Materialized(dma)
             THEN /\ pc' = [pc EXCEPT ![t] = "done"]
                  /\ loc' = [loc EXCEPT ![t] =
                       [l0 EXCEPT !.ret = IF remap_ok THEN 0 ELSE -EAGAIN,
                                  !.size = sz_requested]]
                  /\ UNCHANGED << pipe, hist >>
             ELSE IF ~alloc_ok
             THEN /\ pc' = [pc EXCEPT ![t] = "done"]
                  /\ loc' = [loc EXCEPT ![t] = [l0 EXCEPT !.ret = -ENOMEM]]
                  /\ pipe' = [pipe EXCEPT ![o].dma.phys_begin = 0]
                  /\ UNCHANGED hist
             ELSE /\ pc' = [pc EXCEPT ![t] = "mmap_total"]
                  /\ loc' = [loc EXCEPT ![t] =
                       [l0 EXCEPT !.total = dma_alloc_total,
                                  !.size = sz_requested]]
                  /\ pipe' = [pipe EXCEPT
                       ![o].lock = t,
                       ![o].dma = [dma EXCEPT
                                     !.dma_vaddr = TRUE,
                                     !.phys_begin = phys,
                                     !.phys_end = phys + dma.dma_size]]
                  /\ hist' = [hist EXCEPT ![o].allocs = @ + 1]
  /\ UNCHANGED << pipes, pipes_capacity, first_signalled_pipe,
                  dma_alloc_total, open_command_params, file, asleep,
                  irq_tasklet >>

\* mutex_lock_interruptible fails in goldfish_dma_mmap
MmapInterrupted(t) ==
  /\ pc[t] = "idle"
  /\ \E o \in Objs :
       /\ file[o] = "open"
       /\ MutexInterruptible(o)
       /\ pc' = [pc EXCEPT ![t] = "done"]
       /\ loc' = [loc EXCEPT ![t] =
                    [Loc0 EXCEPT !.pipe = o, !.op = "mmap",
                                 !.ret = -ERESTARTSYS]]
  /\ UNCHANGED << pipes, pipes_capacity, first_signalled_pipe,
                  dma_alloc_total, open_command_params, pipe, file, asleep,
                  irq_tasklet, hist >>

\* goldfish_pipe_dma_alloc_locked up to the doorbell: the write of
\* dev->dma_alloc_total, the map parameters and the command code
MmapTotal(t) ==
  /\ pc[t] = "mmap_total"
  /\ LET o == loc[t].pipe
         dma == pipe[o].dma
     IN /\ dma_alloc_total' = loc[t].total + dma.dma_size
        /\ pipe' = [pipe EXCEPT
                      ![o].command_buffer =
                         [ goldfish_pipe_cmd_locked(@, "DMA_HOST_MAP")
                           EXCEPT !.dma_paddr = dma.phys_begin,
                                  !.sz = dma.dma_size ]]
  /\ hist' = [hist EXCEPT ![loc[t].pipe].adds = @ + 1]
  /\ loc' = [loc EXCEPT ![t].issued = TRUE]
  /\ pc' = [pc EXCEPT ![t] = "mmap_back"]
  /\ UNCHANGED << pipes, pipes_capacity, first_signalled_pipe,
                  open_command_params, file, asleep, irq_tasklet >>

\* the doorbell of PIPE_CMD_DMA_HOST_MAP; its status is dropped;
\* remap_pfn_range of sz_requested bytes from phys_begin; the mutex is
\* released.  loc.size keeps the size the caller asked for.
MmapBack(t) ==
  /\ pc[t] = "mmap_back"
  /\ \E reply \in HostReplies :
       pipe' = [pipe EXCEPT
                  ![loc[t].pipe].lock = NULL,
                  ![loc[t].pipe].command_buffer = Idle(Doorbell(@, reply))]
  /\ hist' = [hist EXCEPT ![loc[t].pipe].maps = @ + 1]
  /\ \E remap_ok \in BOOLEAN :
       /\ pc' = [pc EXCEPT ![t] = "done"]
       /\ loc' = [loc EXCEPT ![t] =
                    [ Loc0 EXCEPT !.ret = IF remap_ok THEN 0 ELSE -EAGAIN,
                                  !.pipe = loc[t].pipe, !.op = loc[t].op,
                                  !.issued = loc[t].issued,
                                  !.size = loc[t].size ]]
  /\ UNCHANGED << pipes, pipes_capacity, first_signalled_pipe,
                  dma_alloc_total, open_command_params, file, asleep,
                  irq_tasklet >>

\* GOLDFISH_DMA_IOC_UNLOCK: wake_up_interruptible(&pipe->wake_queue)
IoctlUnlock(t) ==
  /\ pc[t] = "idle"
  /\ \E o \in Objs :
       /\ file[o] = "open"
       /\ asleep' = WakeUp(o)
       /\ asleep' # asleep
  /\ UNCHANGED << pipes, pipes_capacity, first_signalled_pipe,
                  dma_alloc_total, open_command_params, pipe, file, pc, loc,
                  irq_tasklet, hist >>

----------------------------------------------------------------------------
(* The whole driver *)

TypeOK ==
  /\ pipes_capacity \in Nat
  /\ DOMAIN pipes = 0 .. pipes_capacity - 1
  /\ \A i \in DOMAIN pipes : pipes[i] \in Objs \cup {NULL}
  /\ first_signalled_pipe \in Objs \cup {NULL}
  /\ dma_alloc_total \in Int
  /\ asleep \subseteq Threads
  /\ DOMAIN pipe = Objs
  /\ DOMAIN pc = Threads

Init ==
  /\ pipes = [ i \in 0 .. InitialCapacity - 1 |-> NULL ]
  /\ pipes_capacity = InitialCapacity
  /\ first_signalled_pipe = NULL
  /\ dma_alloc_total = 0
  /\ open_command_params =
       [ command_buffer_ptr |-> NULL, rw_params_max_count |-> 0 ]
  /\ pipe = [ o \in Objs |-> Pipe0 ]
  /\ file = [ o \in Objs |-> "none" ]
  /\ asleep = {}
  /\ pc = [ t \in Threads |-> "idle" ]
  /\ loc = [ t \in Threads |-> Loc0 ]
  /\ irq_tasklet =
       Tasklet0
  /\ hist = [ o \in Objs |-> Hist0 ]

\* the smallest capacity the registry reaches when it holds n pipes
RECURSIVE CapacityFor(_, _)
CapacityFor(cap, n) == IF n <= cap THEN cap ELSE CapacityFor(2 * cap, n)

\* the state after the first n opens have succeeded, before anything else
InitOpen(n) ==
  /\ pipes_capacity = CapacityFor(InitialCapacity, n)
  /\ pipes = [ i \in 0 .. pipes_capacity - 1 |->
                 IF i < n THEN i + 1 ELSE NULL ]
  /\ first_signalled_pipe = NULL
  /\ dma_alloc_total = 0
  /\ open_command_params =
       [ command_buffer_ptr |-> n,
         rw_params_max_count |-> MAX_BUFFERS_PER_COMMAND ]
  /\ pipe = [ o \in Objs |->
                IF o <= n
                THEN [ Pipe0 EXCEPT
                         !.allocated = TRUE, !.id = o - 1,
                         !.command_buffer =
                            [ CommandBuffer0 EXCEPT !.id = o - 1 ] ]
                ELSE Pipe0 ]
  /\ file = [ o \in Objs |-> IF o <= n THEN "open" ELSE "none" ]
  /\ asleep = {}
  /\ pc = [ t \in Threads |-> "idle" ]
  /\ loc = [ t \in Threads |-> Loc0 ]
  /\ irq_tasklet =
       Tasklet0
  /\ hist = [ o \in Objs |-> Hist0 ]

OpenOps(t) ==
  \/ OpenAlloc(t)
  \/ OpenNoMem(t)
  \/ OpenRegister(t)
  \/ OpenFinish(t)

CmdOps(t) ==
  \/ GoldfishPipeCmd(t)
  \/ GoldfishPipeCmdBack(t)

\* mutex_lock_interruptible fails: only where two threads use one pipe
LockInterrupted(t) ==
  \/ GoldfishPipeCmdInterrupted(t)
  \/ TransferInterrupted(t)

\* release of a pipe without a materialized region
ReleaseOps(t) ==
  \/ ReleaseBegin(t)
  \/ ReleaseUnregister(t)
  \/ ReleaseDmaGuest(t)
  \/ ReleaseFree(t)

\* the steps of release that a materialized region adds
ReleaseDmaOps(t) ==
  \/ ReleaseClose(t)
  \/ ReleaseDmaTotal(t)

TransferOps(t) ==
  \/ TransferMaxBuffers(t)
  \/ TransferBack(t)

WaitOps(t) ==
  \/ WaitSetBit(t)
  \/ WaitWhile(t)
  \/ WaitEvent(t)
  \/ WaitEventInterrupted(t)
  \/ WaitClosed(t)

PollOps(t) ==
  \/ PollBegin(t)
  \/ PollMaskStep(t)

DmaOps(t, S) ==
  \/ CreateRegionBegin(t, S)
  \/ CreateRegionLock(t)
  \/ CreateRegionInterrupted(t)
  \/ CreateRegionSet(t)
  \/ MmapBegin(t, S)
  \/ MmapInterrupted(t)
  \/ MmapTotal(t)
  \/ MmapBack(t)

TaskletOps ==
  \/ TaskletRun
  \/ TaskletPop
  \/ TaskletFlags
  \/ TaskletWake

\* Spec: the registry and the signal pipeline, from the state after
\* goldfish_pipe_device_v2_init: thread 1 opens pipes, thread 2 releases
\* them, the host signals and the tasklet runs
Next ==
  \/ OpenOps(1)
  \/ ReleaseOps(2)
  \/ \E t \in Threads :
       \/ CmdOps(t)
       \/ Return(t)
  \/ Interrupt({{PIPE_WAKE_READ}})
  \/ TaskletOps

Spec == Init /\ [][Next]_vars

\* SpecXfer: on one open pipe, thread 1 reads and writes, blocking and not,
\* thread 2 polls, and the host can close the pipe
NextXfer ==
  \/ ReadWriteBegin(1, BOOLEAN, BOOLEAN, UserBuffers)
  \/ TransferOps(1)
  \/ WaitOps(1)
  \/ PollOps(2)
  \/ \E t \in Threads :
       \/ CmdOps(t)
       \/ LockInterrupted(t)
       \/ Return(t)
  \/ Interrupt({{PIPE_WAKE_CLOSED}})
  \/ TaskletOps

SpecXfer == InitOpen(1) /\ [][NextXfer]_vars

\* SpecDma: region creation, mapping and release on two open pipes
NextDma ==
  \E t \in Threads :
    \/ DmaOps(t, DmaSizes)
    \/ ReleaseOps(t)
    \/ ReleaseDmaOps(t)
    \/ CmdOps(t)
    \/ Return(t)

SpecDma == InitOpen(2) /\ [][NextDma]_vars

\* SpecCmd: every system call that issues a command, from both threads on
\* one open pipe (the callers of read block), with the host waking readers
NextCmd ==
  \/ \E t \in Threads :
       \/ ReadWriteBegin(t, BOOLEAN, {FALSE}, {<< 65536, PAGE_SIZE >>})
       \/ TransferOps(t)
       \/ WaitOps(t)
       \/ PollOps(t)
       \/ DmaOps(t, {PAGE_SIZE})
       \/ ReleaseOps(t)
       \/ ReleaseDmaOps(t)
       \/ CmdOps(t)
       \/ LockInterrupted(t)
       \/ IoctlUnlock(t)
       \/ Return(t)
  \/ Interrupt({{PIPE_WAKE_READ}})
  \/ TaskletOps

SpecCmd == InitOpen(1) /\ [][NextCmd]_vars

\* SpecWait: thread 1 is a blocking reader of one open pipe; the host wakes
\* readers and closes the pipe
WaitIrq == Interrupt({{PIPE_WAKE_READ}, {PIPE_WAKE_CLOSED, PIPE_WAKE_READ}})

NextWait ==
  \/ ReadWriteBegin(1, {FALSE}, {FALSE}, {<< 65536, PAGE_SIZE >>})
  \/ TransferOps(1)
  \/ WaitOps(1)
  \/ CmdOps(1)
  \/ Return(1)
  \/ WaitIrq
  \/ TaskletOps

\* the kernel runs a thread that is inside a system call and is not asleep,
\* and it runs a scheduled tasklet; nothing makes the host raise an
\* interrupt, a signal arrive or user space start a call
Fairness ==
  /\ WF_vars(TransferMaxBuffers(1))
  /\ WF_vars(TransferBack(1))
  /\ WF_vars(WaitSetBit(1))
  /\ WF_vars(WaitWhile(1))
  /\ WF_vars(WaitEvent(1))
  /\ WF_vars(WaitClosed(1))
  /\ WF_vars(GoldfishPipeCmd(1))
  /\ WF_vars(GoldfishPipeCmdBack(1))
  /\ WF_vars(TaskletOps)

SpecWait == InitOpen(1) /\ [][NextWait]_vars /\ Fairness

\* SpecSig: thread 1 is a blocking reader and thread 2 a blocking writer of
\* one open pipe; the host wakes either direction and closes the pipe
SigIrq ==
  Interrupt({ {PIPE_WAKE_READ}, {PIPE_WAKE_WRITE}, {PIPE_WAKE_CLOSED},
              {PIPE_WAKE_CLOSED, PIPE_WAKE_READ} })

NextSig ==
  \/ ReadWriteBegin(1, {FALSE}, {FALSE}, {<< 65536, PAGE_SIZE >>})
  \/ ReadWriteBegin(2, {TRUE}, {FALSE}, {<< 65536, PAGE_SIZE >>})
  \/ \E t \in Threads :
       \/ TransferOps(t)
       \/ WaitOps(t)
       \/ CmdOps(t)
       \/ Return(t)
  \/ SigIrq
  \/ TaskletOps

SpecSig == InitOpen(1) /\ [][NextSig]_vars

\* SpecIrq: two open pipes, up to the first run of the tasklet; the host
\* signals batches of IrqBatchLen entries for reading and for writing, and
\* thread 2 releases pipes, which empties their slots
IrqBatch ==
  InterruptBatch({ {PIPE_WAKE_READ}, {PIPE_WAKE_WRITE} }, IrqBatchLen, TRUE)

NextIrq ==
  \/ ReleaseOps(2)
  \/ CmdOps(2)
  \/ Return(2)
  \/ IrqBatch

SpecIrq == InitOpen(2) /\ [][NextIrq]_vars

\* SpecStatus: one thread reads and writes on one open pipe, blocking and
\* not, and the host answers every transfer with any of StatusReplies
StatusIrq == Interrupt({ {PIPE_WAKE_READ}, {PIPE_WAKE_WRITE} })

NextStatus ==
  \/ ReadWriteBegin(1, BOOLEAN, BOOLEAN, {<< 65536, 10 >>})
  \/ TransferMaxBuffers(1)
  \/ TransferBackFrom(1, StatusReplies)
  \/ WaitOps(1)
  \/ CmdOps(1)
  \/ Return(1)
  \/ StatusIrq
  \/ TaskletOps

SpecStatus == InitOpen(1) /\ [][NextStatus]_vars

\* SpecOpen: both threads open and release pipes at the same time
NextOpen ==
  \E t \in Threads :
    \/ OpenOps(t)
    \/ ReleaseOps(t)
    \/ CmdOps(t)
    \/ Return(t)

SpecOpen == Init /\ [][NextOpen]_vars

\* SpecPopulate: one thread reads and writes the buffers of
\* PopulateBuffers without blocking; the pinning can stop early and the
\* pages lie as PopulateLayouts says
NextPopulate ==
  \/ ReadWriteBegin(1, BOOLEAN, {TRUE}, PopulateBuffers)
  \/ TransferMaxBuffersFrom(1, TRUE)
  \/ TransferBack(1)
  \/ Return(1)

SpecPopulate == InitOpen(1) /\ [][NextPopulate]_vars

----------------------------------------------------------------------------
(* Properties *)

\* the threads that have a command in flight on pipe object o: the command
\* and its parameters are in the buffer and the status is not yet read back
InFlight(o) ==
  { t \in Threads : /\ loc[t].pipe = o
                    /\ pc[t] \in {"cmd_back", "transfer_back", "mmap_back"} }

\* C1: on every pipe at most one command is in flight at any instant, and
\* while a thread's command is in flight no step of anything else writes
\* the command buffer of that pipe (the doorbell is rung only by the
\* thread in flight, in the step that ends the flight).
C1_OneCommandInFlight ==
  /\ [](\A o \in Objs : Cardinality(InFlight(o)) <= 1)
  /\ [][\A o \in Objs : \A t \in InFlight(o) :
          pc'[t] = pc[t] =>
            pipe'[o].command_buffer = pipe[o].command_buffer]_vars

\* C1 witness: a READ or WRITE is in flight while the other thread is at
\* the mutex of the same pipe with a command of its own
C1_Witness ==
  \E t, u \in Threads :
    /\ t # u
    /\ pc[t] = "transfer_back"
    /\ pc[u] = "cmd"
    /\ loc[u].pipe = loc[t].pipe

\* C2: a read or write call whose commands consumed a positive number of
\* bytes in all returns exactly that number, whatever ends the loop; and
\* when a command's answer is read back, the bytes it consumed are already
\* in the running count and in the address cursor when the call goes on
\* (loc.sum adds up the positive consumed_size values the host stored).
C2_PartialTransferReturned ==
  /\ [](\A t \in Threads :
          pc[t] = "done" /\ loc[t].op = "read_write" /\ loc[t].sum > 0
            => loc[t].ret = loc[t].sum)
  /\ [][\A t \in Threads :
          pc[t] = "transfer_back" /\ pc'[t] # "done" =>
            /\ loc'[t].count = loc'[t].sum
            /\ loc'[t].address - loc[t].address
                 = loc'[t].sum - loc[t].sum]_vars

\* C2 witness: a call has returned after the host consumed a part of the
\* buffer, and a later command of the same call ended the loop
C2_Witness ==
  \E t \in Threads :
    /\ pc[t] = "done"
    /\ loc[t].op = "read_write"
    /\ loc[t].sum > 0
    /\ loc[t].sum < MaxPartial
    /\ loc[t].ret = loc[t].sum

\* C3: a read or write call that starts on a pipe marked closed-on-host
\* returns -EIO in its first step, whatever the length of the buffer, and
\* that step takes no mutex and stores no command: the pipes are left as
\* they were.
C3_ClosedPipeRejected ==
  [][\A t \in Threads :
       /\ pc[t] = "idle"
       /\ pc'[t] # "idle"
       /\ loc'[t].op = "read_write"
       /\ BIT_CLOSED_ON_HOST \in pipe[loc'[t].pipe].flags
       => /\ pc'[t] = "done"
          /\ loc'[t].ret = -EIO
          /\ ~loc'[t].issued
          /\ pipe' = pipe]_vars

\* C3 witness: a write call on the closed pipe has returned -EIO without
\* having stored a command
C3_Witness ==
  \E t \in Threads :
    /\ pc[t] = "done"
    /\ loc[t].op = "read_write"
    /\ loc[t].is_write
    /\ ~loc[t].issued
    /\ loc[t].ret = -EIO
    /\ BIT_CLOSED_ON_HOST \in pipe[loc[t].pipe].flags

\* the places of a thread inside wait_for_host_signal
WaitPlaces == {"wait_set", "wait_while", "wait_event", "wait_closed"}

\* C4: when a command of a non-blocking call that has transferred nothing
\* comes back with the would-block status and no bytes consumed, the step
\* that reads the answer ends the call with -EAGAIN: the wake flags of the
\* pipe are as before, no wake command is in the buffer and the caller is
\* not asleep; and a non-blocking caller is never inside the wait.
C4_NonBlockingWouldBlock ==
  /\ [][\A t \in Threads :
          /\ pc[t] = "transfer_back"
          /\ pc'[t] # "transfer_back"
          /\ loc[t].nonblock
          /\ loc[t].count = 0
          /\ loc'[t].status = PIPE_ERROR_AGAIN
          /\ loc'[t].sum = 0
          => /\ pc'[t] = "done"
             /\ loc'[t].ret = -EAGAIN
             /\ pipe'[loc[t].pipe].flags = pipe[loc[t].pipe].flags
             /\ pipe'[loc[t].pipe].command_buffer.cmd = "NONE"
             /\ t \notin asleep']_vars
  /\ [](\A t \in Threads :
          loc[t].op = "read_write" /\ loc[t].nonblock
            => pc[t] \notin WaitPlaces /\ t \notin asleep)

\* C4 witness: a non-blocking call has returned -EAGAIN after its only
\* command came back with the would-block status
C4_Witness ==
  \E t \in Threads :
    /\ pc[t] = "done"
    /\ loc[t].op = "read_write"
    /\ loc[t].nonblock
    /\ loc[t].issued
    /\ loc[t].status = PIPE_ERROR_AGAIN
    /\ loc[t].ret = -EAGAIN

\* thread t sleeps in wait_for_host_signal with its wait bit set, and the
\* interrupt handler has queued a wake signal of its direction for its pipe
WakeSignalled(t) ==
  /\ pc[t] = "wait_event"
  /\ t \in asleep
  /\ WakeBit(loc[t].is_write) \in pipe[loc[t].pipe].flags
  /\ (IF loc[t].is_write THEN PIPE_WAKE_WRITE ELSE PIPE_WAKE_READ)
       \in pipe[loc[t].pipe].signalled_flags

\* thread t has stored the READ or WRITE command of its call again
Reissued(t) == pc[t] = "transfer_back"

\* C5 as stated: a blocked caller whose pipe gets a wake signal of its
\* direction eventually resumes and issues the READ or WRITE command again.
C5_WakeThenReissue == WakeSignalled(1) ~> Reissued(1)

\* C5: a blocked caller whose pipe gets a wake signal of its direction
\* eventually leaves the wait: it calls transfer_max_buffers again, or it
\* returns -EIO because the same signal says closed, or it returns
\* -ERESTARTSYS because a signal of its own interrupted the sleep.
C5_WakeThenRetryOrFail ==
  WakeSignalled(1) ~>
    \/ pc[1] = "transfer"
    \/ pc[1] = "done" /\ loc[1].ret \in {-EIO, -ERESTARTSYS}

\* C5 witness: the reader has been woken by a read wake (its bit is clear,
\* the pipe is not closed) and is on its way out of the wait
C5_Witness ==
  /\ pc[1] = "wait_closed"
  /\ ~loc[1].is_write
  /\ pipe[loc[1].pipe].flags = {}

\* the tasklet holds a popped pipe whose signal says closed and read
ClosedAndRead ==
  /\ irq_tasklet.pipe # NULL
  /\ {PIPE_WAKE_CLOSED, PIPE_WAKE_READ} \subseteq irq_tasklet.wakes

\* C6: when the tasklet processes a pipe signalled closed and read in one
\* batch, the flags it stores are the closed-on-host marker alone; its
\* wake-up leaves no thread of the pipe asleep; and a reader that is in
\* its wait on the pipe while the stored flags stand gets -EIO from its
\* call.
C6_ClosurePrecedence ==
  /\ [][irq_tasklet.pc = "flags" /\ irq_tasklet'.pc = "wake"
          /\ ClosedAndRead
          => pipe'[irq_tasklet.pipe].flags = {BIT_CLOSED_ON_HOST}]_vars
  /\ [][irq_tasklet.pc = "wake" /\ irq_tasklet'.pc # "wake"
          /\ ClosedAndRead
          => \A t \in Threads :
               loc[t].pipe = irq_tasklet.pipe => t \notin asleep']_vars
  /\ (irq_tasklet.pc = "wake" /\ ClosedAndRead
        /\ pc[1] = "wait_event" /\ loc[1].pipe = irq_tasklet.pipe
        /\ pipe[irq_tasklet.pipe].flags = {BIT_CLOSED_ON_HOST})
       ~> (pc[1] = "done" /\ loc[1].ret = -EIO)

\* C6 witness: the flags of a pipe signalled closed and read have been
\* stored while its reader sleeps on the wake queue
C6_Witness ==
  /\ irq_tasklet.pc = "wake"
  /\ ClosedAndRead
  /\ pc[1] = "wait_event"
  /\ 1 \in asleep
  /\ loc[1].pipe = irq_tasklet.pipe
  /\ pipe[irq_tasklet.pipe].flags = {BIT_CLOSED_ON_HOST}

\* the pipe objects met from dev->first_signalled_pipe along next_signalled,
\* at most n of them
RECURSIVE Walk(_, _)
Walk(o, n) ==
  IF o = NULL \/ n = 0 THEN << >>
  ELSE << o >> \o Walk(pipe[o].next_signalled, n - 1)

SignalledList == Walk(first_signalled_pipe, MaxPipes + 1)

Listed == { SignalledList[i] : i \in DOMAIN SignalledList }

\* the list is a doubly-linked list of distinct pipes, and the pipes
\* outside it have no links
WellFormedList ==
  /\ Len(SignalledList) <= MaxPipes
  /\ \A i, j \in DOMAIN SignalledList :
       SignalledList[i] = SignalledList[j] => i = j
  /\ \A i \in DOMAIN SignalledList :
       pipe[SignalledList[i]].prev_signalled =
         (IF i = 1 THEN NULL ELSE SignalledList[i - 1])
  /\ \A o \in Objs \ Listed :
       /\ pipe[o].prev_signalled = NULL
       /\ pipe[o].next_signalled = NULL

TornDown(o) ==
  \E t \in Threads :
    /\ loc[t].pipe = o
    /\ loc[t].op = "release"
    /\ \/ pc[t] \in {"rel_dma_guest", "rel_total", "rel_free"}
       \/ pc[t] = "done" /\ ~pipe[o].allocated

\* C8: once release has cleared a pipe's registry slot and unlinked it,
\* nothing on the interrupt side can touch the pipe any more: it is in no
\* slot and not in the signalled list, and the tasklet holds no pointer to
\* it (a tasklet that holds a popped pipe goes on to write its flags and
\* to wake its queue).
C8_TeardownSafety ==
  \A o \in Objs :
    TornDown(o) =>
      /\ \A i \in DOMAIN pipes : pipes[i] # o
      /\ o \notin Listed
      /\ irq_tasklet.pipe # o

\* C8 scenario: release has freed the pipe that the tasklet popped and is
\* about to store flags into
C8_UseAfterFree ==
  \E t \in Threads :
    /\ pc[t] = "done"
    /\ loc[t].op = "release"
    /\ irq_tasklet.pc = "flags"
    /\ irq_tasklet.pipe = loc[t].pipe
    /\ ~pipe[loc[t].pipe].allocated

\* C9: on a pipe the backing memory is allocated at most once, added to
\* dev->dma_alloc_total at most once and mapped on the host at most once,
\* however often mmap is called; and a call that gets to
\* goldfish_pipe_dma_alloc_locked on a pipe whose region is materialized
\* ends in that step (with 0, or -EAGAIN of remap_pfn_range) and changes no
\* pipe, no counter and not the total.
C9_EnsureMappedOnce ==
  /\ [](\A o \in Objs : /\ hist[o].allocs <= 1
                         /\ hist[o].adds <= hist[o].allocs
                         /\ hist[o].maps <= hist[o].adds)
  /\ [][\A t \in Threads :
          /\ pc[t] = "idle"
          /\ pc'[t] # "idle"
          /\ loc'[t].op = "mmap"
          /\ Materialized(pipe[loc'[t].pipe].dma)
          /\ loc'[t].ret \notin {-EINVAL, -ERESTARTSYS}
          => /\ pc'[t] = "done"
             /\ loc'[t].ret \in {0, -EAGAIN}
             /\ pipe' = pipe
             /\ hist' = hist
             /\ dma_alloc_total' = dma_alloc_total]_vars

\* C9 witness: an mmap call has returned 0 without storing a command, on a
\* pipe whose region an earlier call has allocated and mapped
C9_Witness ==
  \E t \in Threads :
    /\ pc[t] = "done"
    /\ loc[t].op = "mmap"
    /\ loc[t].ret = 0
    /\ ~loc[t].issued
    /\ hist[loc[t].pipe].allocs = 1
    /\ hist[loc[t].pipe].adds = 1
    /\ hist[loc[t].pipe].maps = 1

\* C10: a creation request that gets to the test of pipe->dma on a pipe
\* that owns a region returns -EBUSY and leaves the region as it is (it
\* fails with -ERESTARTSYS instead only when it cannot get the mutex); a
\* pipe's region is set at most once, so of two racing requests not both
\* succeed, and a request gets -EBUSY only when one has succeeded.
C10_RegionCreatedOnce ==
  /\ [][\A t \in Threads :
          /\ pc[t] = "create_lock"
          /\ pc'[t] # "create_lock"
          /\ pipe[loc[t].pipe].dma.present
          => /\ pc'[t] = "done"
             /\ loc'[t].ret =
                  (IF pipe[loc[t].pipe].lock = NULL
                   THEN -EBUSY ELSE -ERESTARTSYS)
             /\ pipe'[loc[t].pipe].dma = pipe[loc[t].pipe].dma]_vars
  /\ [](\A o \in Objs : hist[o].creates <= 1)
  /\ [](\A t \in Threads :
          pc[t] = "done" /\ loc[t].op = "create_region"
            /\ loc[t].ret \in {0, -EBUSY}
            => hist[loc[t].pipe].creates = 1)

\* C10 witness: two requests on one pipe have returned, one with 0 and
\* the other with -EBUSY
C10_Witness ==
  \E t, u \in Threads :
    /\ pc[t] = "done" /\ pc[u] = "done"
    /\ loc[t].op = "create_region" /\ loc[u].op = "create_region"
    /\ loc[t].pipe = loc[u].pipe
    /\ loc[t].ret = 0
    /\ loc[u].ret = -EBUSY

\* C11: a creation request whose argument could be read is rejected with
\* -EINVAL exactly when its size is not a multiple of the page size in
\* [one page, 256 MiB]; a rejected request changes no pipe (no command is
\* stored, no region appears), no counter and not the total; and no pipe
\* ever owns a region of another size.
C11_RegionSizeValidated ==
  /\ [][\A t \in Threads :
          /\ pc[t] = "idle"
          /\ pc'[t] # "idle"
          /\ loc'[t].op = "create_region"
          /\ loc'[t].ret # -EFAULT
          => LET size == loc'[t].size
                 ok == /\ size % 4096 = 0
                       /\ size >= 4096
                       /\ size <= 256 * 1024 * 1024
             IN /\ (pc'[t] = "done" /\ loc'[t].ret = -EINVAL) <=> ~ok
                /\ ~ok => /\ pipe' = pipe
                          /\ hist' = hist
                          /\ dma_alloc_total' = dma_alloc_total]_vars
  /\ [](\A o \in Objs :
          pipe[o].dma.present
            => /\ pipe[o].dma.dma_size % 4096 = 0
               /\ pipe[o].dma.dma_size >= 4096
               /\ pipe[o].dma.dma_size <= 256 * 1024 * 1024)

\* C11 witness: a request for 256 MiB + 1 byte has returned -EINVAL on a
\* pipe that still has no region, and another pipe owns a region of
\* exactly 256 MiB
C11_Witness ==
  \E t \in Threads, o \in Objs :
    /\ pc[t] = "done"
    /\ loc[t].op = "create_region"
    /\ loc[t].ret = -EINVAL
    /\ loc[t].size = 256 * 1024 * 1024 + 1
    /\ ~pipe[loc[t].pipe].dma.present
    /\ hist[loc[t].pipe].creates = 0
    /\ pipe[o].dma.present
    /\ pipe[o].dma.dma_size = 256 * 1024 * 1024

\* C12: a pipe gets PIPE_CMD_DMA_HOST_UNMAP at most once and only for a
\* region that was materialized, the memory is freed only after the unmap
\* and the total is decremented only after the free, each at most once;
\* when release has returned, a materialized region has had exactly one
\* unmap, one free and one decrement and any other pipe none of them; and
\* the unmap command that reaches the host carries the region's physical
\* base and size.
C12_UnmapThenFreeOnce ==
  /\ [](\A o \in Objs : /\ hist[o].unmaps <= hist[o].allocs
                         /\ hist[o].unmaps <= 1
                         /\ hist[o].frees <= hist[o].unmaps
                         /\ hist[o].subs <= hist[o].frees)
  /\ [](\A t \in Threads :
          pc[t] = "done" /\ loc[t].op = "release"
            => /\ hist[loc[t].pipe].unmaps = hist[loc[t].pipe].allocs
               /\ hist[loc[t].pipe].frees = hist[loc[t].pipe].allocs
               /\ hist[loc[t].pipe].subs = hist[loc[t].pipe].allocs)
  /\ [][\A o \in Objs :
          hist'[o].unmaps # hist[o].unmaps
            => /\ file[o] = "releasing"
               /\ pipe[o].dma.dma_vaddr
               /\ pipe[o].command_buffer.cmd = "DMA_HOST_UNMAP"
               /\ pipe[o].command_buffer.dma_paddr = pipe[o].dma.phys_begin
               /\ pipe[o].command_buffer.sz = pipe[o].dma.dma_size]_vars

\* C12 witness: two pipes have been released; the region of one was
\* materialized and has been unmapped, freed and subtracted once, the
\* region of the other was only created and got none of the three
C12_Witness ==
  \E t, u \in Threads :
    /\ pc[t] = "done" /\ loc[t].op = "release"
    /\ pc[u] = "done" /\ loc[u].op = "release"
    /\ hist[loc[t].pipe].allocs = 1
    /\ hist[loc[t].pipe].unmaps = 1
    /\ hist[loc[t].pipe].frees = 1
    /\ hist[loc[t].pipe].subs = 1
    /\ hist[loc[u].pipe].creates = 1
    /\ hist[loc[u].pipe].allocs = 0
    /\ hist[loc[u].pipe].unmaps = 0
    /\ hist[loc[u].pipe].frees = 0
    /\ hist[loc[u].pipe].subs = 0

\* C13: no step takes BIT_CLOSED_ON_HOST out of the flags of a pipe that
\* stays allocated: not the tasklet, whatever signal it serves, and not a
\* reader or writer that registers a wait.
C13_ClosedNeverCleared ==
  [][\A o \in Objs :
       /\ pipe[o].allocated
       /\ pipe'[o].allocated
       /\ BIT_CLOSED_ON_HOST \in pipe[o].flags
       => BIT_CLOSED_ON_HOST \in pipe'[o].flags]_vars

\* C13 witness: on a closed pipe a writer has registered a wait after the
\* closure, and the tasklet has just served a later read-wake signal
C13_Witness ==
  \E o \in Objs :
    /\ pipe[o].allocated
    /\ pipe[o].flags = {BIT_CLOSED_ON_HOST, BIT_WAKE_ON_WRITE}
    /\ irq_tasklet.pc = "wake"
    /\ irq_tasklet.pipe = o
    /\ irq_tasklet.wakes = {PIPE_WAKE_READ}

\* C14: an open that gets a slot gets the lowest empty one and leaves the
\* capacity alone when the array has an empty slot; otherwise the capacity
\* doubles, every old entry stays at its index and the id is the old
\* capacity.  The capacity never decreases.  Every open pipe is the entry
\* of the registry at its own id, so no two open pipes share an id.
C14_RegistryAllocation ==
  /\ [][\A t \in Threads :
          pc[t] = "open_locked" /\ pc'[t] = "open_unlocked"
            => LET o == loc[t].pipe
                   id == pipe'[o].id
                   empty == { i \in 0 .. pipes_capacity - 1 : pipes[i] = NULL }
               IN /\ pipes'[id] = o
                  /\ \A i \in 0 .. pipes_capacity - 1 :
                       i # id => pipes'[i] = pipes[i]
                  /\ IF empty # {}
                     THEN /\ id \in empty
                          /\ \A j \in empty : id <= j
                          /\ pipes_capacity' = pipes_capacity
                     ELSE /\ id = pipes_capacity
                          /\ pipes_capacity' = 2 * pipes_capacity
                          /\ \A i \in pipes_capacity + 1 ..
                                      2 * pipes_capacity - 1 :
                               pipes'[i] = NULL]_vars
  /\ [][pipes_capacity' >= pipes_capacity]_vars
  /\ [](\A o \in Objs :
          file[o] = "open"
            => /\ pipe[o].id \in 0 .. pipes_capacity - 1
               /\ pipes[pipe[o].id] = o)
  /\ [](\A o, p \in Objs :
          file[o] = "open" /\ file[p] = "open" /\ o # p
            => pipe[o].id # pipe[p].id)

\* C14 witness: the registry has grown, and an open has just been given
\* slot 0 again, which a release had emptied, while a pipe that is still
\* open sits in the slot the doubling added
C14_Witness ==
  \E t \in Threads, p \in Objs :
    /\ pc[t] = "open_unlocked"
    /\ pipe[loc[t].pipe].id = 0
    /\ pipes[0] = loc[t].pipe
    /\ pipes_capacity = 2 * InitialCapacity
    /\ file[p] = "open"
    /\ pipe[p].id = InitialCapacity
    /\ pipes[InitialCapacity] = p

\* C15: a read or write call that a signal interrupts, at the mutex of
\* transfer_max_buffers or in the sleep of wait_for_host_signal, returns
\* -ERESTARTSYS when the host has consumed no byte in this call and the
\* number of bytes consumed otherwise (loc.sum adds up the positive
\* consumed_size values); -ERESTARTSYS is never returned by a call that
\* transferred something.
C15_InterruptKeepsCount ==
  /\ [][\A t \in Threads :
          /\ pc[t] \in {"transfer", "wait_event"}
          /\ pc'[t] = "done"
          /\ loc'[t].intr
          => loc'[t].ret =
               (IF loc[t].sum > 0 THEN loc[t].sum ELSE -ERESTARTSYS)]_vars
  /\ [](\A t \in Threads :
          pc[t] = "done" /\ loc[t].op = "read_write"
            /\ loc[t].ret = -ERESTARTSYS
            => loc[t].sum = 0)
  /\ [](\A t \in Threads :
          pc[t] = "done" /\ loc[t].op = "read_write" /\ loc[t].intr
            => loc[t].ret \in {-ERESTARTSYS, loc[t].sum})

\* C15 witness: a call that had transferred a part of its buffer was
\* interrupted and has returned the number of bytes transferred
C15_Witness ==
  \E t \in Threads :
    /\ pc[t] = "done"
    /\ loc[t].op = "read_write"
    /\ loc[t].intr
    /\ loc[t].sum > 0
    /\ loc[t].ret = loc[t].sum

\* C16: a blocking reader that is in its wait (its wait bit was set and
\* the host was told) leaves the wait once its bit is clear, and leaves it
\* once the pipe is closed-on-host, however the tasklet's store of the
\* closed marker interleaves with the reader.
C16_WaitEndsOnClosure ==
  /\ (pc[1] \in {"wait_while", "wait_event"}
        /\ BIT_WAKE_ON_READ \notin pipe[loc[1].pipe].flags)
       ~> (pc[1] \notin {"wait_while", "wait_event"})
  /\ (pc[1] \in {"wait_while", "wait_event"}
        /\ BIT_CLOSED_ON_HOST \in pipe[loc[1].pipe].flags)
       ~> (pc[1] \notin {"wait_while", "wait_event"})

\* C16 scenario: the closed marker was stored before the reader set its
\* wait bit; the reader sleeps on a closed pipe with its bit set, and the
\* interrupt handler and the tasklet have nothing left to do
C16_SleepsOnClosedPipe ==
  /\ pc[1] = "wait_event"
  /\ 1 \in asleep
  /\ pipe[loc[1].pipe].flags = {BIT_CLOSED_ON_HOST, BIT_WAKE_ON_READ}
  /\ pipe[loc[1].pipe].signalled_flags = {}
  /\ first_signalled_pipe = NULL
  /\ irq_tasklet.pc = "idle"
  /\ ~irq_tasklet.scheduled

\* what C17 says of the first k entries of buf, on the flags and the order
\* of the list before the run: an entry that names a registered pipe adds
\* its flags to the pipe's and puts the pipe in front unless it is listed
C17_Registered(id) == id \in 0 .. pipes_capacity - 1 /\ pipes[id] # NULL

RECURSIVE C17_After(_, _, _)
C17_After(abs, buf, k) ==
  IF k = 0 THEN abs
  ELSE
    LET b == C17_After(abs, buf, k - 1)
        e == buf[k]
        o == pipes[e.id]
    IN IF ~C17_Registered(e.id) THEN b
       ELSE [ flags |-> [b.flags EXCEPT ![o] = @ \cup e.flags],
              list |-> IF \E i \in DOMAIN b.list : b.list[i] = o
                       THEN b.list
                       ELSE << o >> \o b.list ]

\* C17: one run of the interrupt handler with a count n > 0 processes the
\* first min(n, 64) entries of the signal buffer in one step: an entry
\* whose id is in range and names a registered pipe ORs its flags into the
\* pipe's signalled_flags (also when the pipe is listed already) and puts
\* the pipe at the head of the list unless it is a member; any other entry
\* changes no pipe and no list state; nothing but signalled_flags and the
\* list links of a pipe is written.
C17_InterruptAddsEntries ==
  [][pc' = pc /\ irq_tasklet'.pc = irq_tasklet.pc
       => LET seen == irq_tasklet'.seen
              n == Min(seen.count, IrqBatchLen)
              after == C17_After(
                         [ flags |-> [o \in Objs |-> pipe[o].signalled_flags],
                           list |-> SignalledList ],
                         seen.buf, n)
          IN /\ seen.count > 0 /\ Len(seen.buf) = n
             /\ \A o \in Objs :
                  /\ pipe'[o].signalled_flags = after.flags[o]
                  /\ [pipe'[o] EXCEPT !.signalled_flags = {},
                                      !.prev_signalled = NULL,
                                      !.next_signalled = NULL]
                       = [pipe[o] EXCEPT !.signalled_flags = {},
                                         !.prev_signalled = NULL,
                                         !.next_signalled = NULL]
             /\ SignalledList' = after.list
             /\ WellFormedList'
             /\ pipes' = pipes /\ pipes_capacity' = pipes_capacity]_vars

\* C17 witness: a run told of more entries than the buffer holds has read
\* two write wakes: the first for pipe 2, which went to the head of the
\* list, the second for pipe 1, which was listed with a read wake and
\* keeps its place with both flags
C17_Witness ==
  /\ irq_tasklet.seen =
       [ count |-> IrqBatchLen + 1,
         buf |-> << [id |-> 1, flags |-> {PIPE_WAKE_WRITE}],
                    [id |-> 0, flags |-> {PIPE_WAKE_WRITE}] >> ]
  /\ irq_tasklet.scheduled
  /\ pipes[0] = 1 /\ pipes[1] = 2
  /\ SignalledList = << 2, 1 >>
  /\ pipe[1].signalled_flags = {PIPE_WAKE_READ, PIPE_WAKE_WRITE}
  /\ pipe[2].signalled_flags = {PIPE_WAKE_WRITE}

\* C18: the pop takes the head's signalled_flags and leaves them zero; when
\* the popped flags do not hold PIPE_WAKE_CLOSED, the tasklet's write to
\* pipe->flags clears BIT_WAKE_ON_READ iff PIPE_WAKE_READ was signalled
\* and BIT_WAKE_ON_WRITE iff PIPE_WAKE_WRITE was, and every other bit of
\* the flags, of this pipe and of every other, stays as it was.
C18_ClearsSignalledWaitBits ==
  /\ [][irq_tasklet.pc = "pop" /\ irq_tasklet'.pc = "flags"
          => /\ irq_tasklet'.pipe = first_signalled_pipe
             /\ irq_tasklet'.wakes =
                  pipe[first_signalled_pipe].signalled_flags
             /\ pipe'[first_signalled_pipe].signalled_flags = {}]_vars
  /\ [][/\ irq_tasklet.pc = "flags" /\ irq_tasklet'.pc = "wake"
         /\ PIPE_WAKE_CLOSED \notin irq_tasklet.wakes
          => /\ \A b \in {BIT_CLOSED_ON_HOST, BIT_WAKE_ON_READ,
                           BIT_WAKE_ON_WRITE} :
                  b \in pipe'[irq_tasklet.pipe].flags
                    <=> /\ b \in pipe[irq_tasklet.pipe].flags
                        /\ ~(b = BIT_WAKE_ON_READ
                               /\ PIPE_WAKE_READ \in irq_tasklet.wakes)
                        /\ ~(b = BIT_WAKE_ON_WRITE
                               /\ PIPE_WAKE_WRITE \in irq_tasklet.wakes)
             /\ pipe'[irq_tasklet.pipe].signalled_flags
                  = pipe[irq_tasklet.pipe].signalled_flags
             /\ \A o \in Objs \ {irq_tasklet.pipe} :
                  pipe'[o].flags = pipe[o].flags]_vars

\* C18 witness: a reader and a writer sleep on the pipe, a read wake was
\* popped, and the tasklet has cleared the read wait and kept the write
\* wait
C18_Witness ==
  /\ irq_tasklet.pc = "wake"
  /\ irq_tasklet.wakes = {PIPE_WAKE_READ}
  /\ irq_tasklet.pipe = loc[1].pipe /\ irq_tasklet.pipe = loc[2].pipe
  /\ asleep = {1, 2}
  /\ ~loc[1].is_write /\ loc[2].is_write
  /\ pipe[irq_tasklet.pipe].flags = {BIT_WAKE_ON_WRITE}
  /\ pipe[irq_tasklet.pipe].signalled_flags = {}

\* the wake flag of a waiter's direction
WakeFlag(is_write) == IF is_write THEN PIPE_WAKE_WRITE ELSE PIPE_WAKE_READ

\* thread t has set its wait bit on pipe o and has not left the wait
HasSetBit(t, o) ==
  /\ loc[t].pipe = o
  /\ \/ pc[t] \in {"wait_while", "wait_event"}
     \/ pc[t] \in {"cmd", "cmd_back"} /\ loc[t].cont = "wait_while"

C20_PresetAndInterrupted ==
  /\ [][\A o \in Objs : \A t \in InFlight(o)' \ InFlight(o) :
          /\ pipe'[o].command_buffer.status = PIPE_ERROR_INVAL
          /\ pipe'[o].lock = t
          /\ pc[t] = "cmd" => pipe'[o].command_buffer.cmd = loc[t].cmd]_vars
  /\ [](\A o \in Objs :
          InFlight(o) # {}
            => /\ pipe[o].command_buffer.status = PIPE_ERROR_INVAL
               /\ Doorbell(pipe[o].command_buffer, << >>).status
                    = PIPE_ERROR_INVAL
               /\ \A s \in HostStatus :
                    Doorbell(pipe[o].command_buffer, << s >>).status = s)
  /\ [][\A t \in Threads :
          pc[t] = "cmd_back" /\ pc'[t] # "cmd_back" /\ loc[t].cmd = "POLL"
            => /\ loc'[t].status \in
                    { Doorbell(pipe[loc[t].pipe].command_buffer, r).status :
                        r \in HostReplies }
               /\ pipe'[loc[t].pipe].lock = NULL]_vars
  /\ [][\A t \in Threads :
          pc[t] = "cmd" /\ pc'[t] \notin {"cmd", "cmd_back"}
            => /\ pipe[loc[t].pipe].lock \notin {NULL, t}
               /\ pipe' = pipe
               /\ hist' = hist
               /\ pc'[t] = loc[t].cont
               /\ loc'[t].issued = loc[t].issued
               /\ loc[t].cmd = "POLL"
                    => loc'[t].status = PIPE_ERROR_IO]_vars

\* C20 witness: the host has left the status of a PIPE_CMD_POLL alone and
\* poll has received the sentinel
C20_Witness ==
  /\ pc[2] = "poll_mask"
  /\ loc[2].cmd = "POLL"
  /\ loc[2].issued
  /\ loc[2].status = PIPE_ERROR_INVAL

\* C21: when a transfer command comes back and the call has transferred
\* no byte, a positive status sends the caller straight to the next
\* command (no wait bit, no sleep), a zero status ends the call with 0,
\* and a negative status other than would-block ends it with the errno of
\* the status: -ENOMEM for PIPE_ERROR_NOMEM, -EIO for PIPE_ERROR_IO and
\* -EINVAL for every other; would-block ends a non-blocking call with
\* -EAGAIN.
C21_StatusInterpretation ==
  [][\A t \in Threads :
       pc[t] = "transfer_back" /\ pc'[t] # "transfer_back"
         /\ loc'[t].sum = 0
       => LET status == loc'[t].status IN
          /\ status > 0
               => /\ pc'[t] = "transfer"
                  /\ t \notin asleep'
                  /\ pipe'[loc[t].pipe].flags = pipe[loc[t].pipe].flags
          /\ status = 0 => pc'[t] = "done" /\ loc'[t].ret = 0
          /\ status < 0 /\ status # PIPE_ERROR_AGAIN
               => /\ pc'[t] = "done"
                  /\ loc'[t].ret =
                       (IF status = PIPE_ERROR_NOMEM THEN -ENOMEM
                        ELSE IF status = PIPE_ERROR_IO THEN -EIO
                        ELSE -EINVAL)
          /\ status = PIPE_ERROR_AGAIN /\ loc[t].nonblock
               => pc'[t] = "done" /\ loc'[t].ret = -EAGAIN
          /\ status = PIPE_ERROR_AGAIN /\ ~loc[t].nonblock
               => pc'[t] = "wait_set"]_vars

\* C21 witness: the host has answered the first command of a call with
\* PIPE_ERROR_NOMEM and the call has ended with -ENOMEM
C21_Witness ==
  /\ pc[1] = "done"
  /\ loc[1].op = "read_write"
  /\ loc[1].issued
  /\ loc[1].sum = 0
  /\ loc[1].status = PIPE_ERROR_NOMEM
  /\ loc[1].ret = -ENOMEM

\* C22: the step in which an opener rings the OPEN doorbell is the step
\* in which it writes the open parameters: when the host sees the OPEN
\* command of pipe id i, the parameters hold the command buffer of the
\* pipe registered at i, whose id field is i, and the count 336, whatever
\* other openers have written before.
C22_OpenParamsOwn ==
  [][\A t \in Threads :
       pc[t] = "open_locked" /\ pc'[t] = "open_unlocked"
       => LET o == loc[t].pipe
              i == pipe'[o].id
          IN /\ open_command_params'.command_buffer_ptr = o
             /\ open_command_params'.rw_params_max_count = 336
             /\ i \in 0 .. pipes_capacity' - 1
             /\ pipes'[i] = o
             /\ pipe'[o].command_buffer.id = i
             /\ loc'[t].issued]_vars

\* C22 witness: two opens overlap; the first got id 0, the second id 1,
\* and the parameters are the second opener's
C22_Witness ==
  /\ pc[1] = "open_unlocked" /\ pc[2] = "open_unlocked"
  /\ pipe[loc[1].pipe].id = 0 /\ pipe[loc[2].pipe].id = 1
  /\ loc[1].pipe # loc[2].pipe
  /\ open_command_params =
       [ command_buffer_ptr |-> loc[2].pipe, rw_params_max_count |-> 336 ]

\* the descriptors built for a request from address to address_end when
\* get_user_pages_fast pins got pages that lie as pages says
C23_Descriptors(address, address_end, got, pages) ==
  LET first_page == PageOf(address)
      last_page == PageOf(address_end - 1)
      pin == goldfish_pin_user_pages(first_page, last_page,
                                     OffsetOf(address_end - 1) + 1, got)
  IN populate_rw_params(pages, address, address_end, first_page, last_page,
                        pin.iter_last_page_size)

\* the pages that are not one page above the page before them
C23_Breaks(pages) ==
  { i \in 2 .. Len(pages) : pages[i] # pages[i - 1] + PAGE_SIZE }

\* C23: for a caller about to build its descriptors, whatever number k of
\* pages is pinned (1 <= k <= 336) and wherever they lie: there are
\* between 1 and k descriptors; their sizes are positive and sum to the
\* bytes from the start address to the smaller of the end of the request
\* and the end of the last pinned page; a page starts a new descriptor
\* exactly when it is not one page above the page before it, so a
\* descriptor never starts one page above the last page of the descriptor
\* before it; the first descriptor starts at the first page's physical
\* address plus the offset of the start address in its page.
C23_DescriptorBuilder ==
  \A t \in Threads :
    pc[t] = "transfer"
    => LET address == loc[t].address
           address_end == loc[t].address_end
           requested == RequestedPages(PageOf(address),
                                       PageOf(address_end - 1))
       IN \A k \in PinOutcomes(requested) \ {0} :
            \A pages \in PopulateLayouts(k) :
              LET bufs == C23_Descriptors(address, address_end, k, pages)
                  breaks == C23_Breaks(pages)
              IN /\ k <= MAX_BUFFERS_PER_COMMAND
                 /\ 1 <= Len(bufs) /\ Len(bufs) <= k
                 /\ \A j \in 1 .. Len(bufs) : bufs[j].size > 0
                 /\ SumSizes(bufs) =
                      Min(address_end, PageOf(address) + k * PAGE_SIZE)
                        - address
                 /\ bufs[1].ptr = pages[1] + OffsetOf(address)
                 /\ Len(bufs) = 1 + Cardinality(breaks)
                 /\ \A j \in 2 .. Len(bufs) :
                      /\ bufs[j].ptr =
                           pages[CHOOSE i \in breaks :
                                   Cardinality({ b \in breaks : b < i })
                                     = j - 2]
                      /\ bufs[j].ptr #
                           PageOf(bufs[j - 1].ptr + bufs[j - 1].size - 1)
                             + PAGE_SIZE

\* C23 witness: of a request of two pages and five bytes that starts one
\* byte into a page, all three pages were pinned; they lie in a pair and
\* a single page, and the command in flight has two descriptors for all
\* the bytes
C23_Witness ==
  /\ pc[1] = "transfer_back"
  /\ loc[1].address = 65536 + 1
  /\ loc[1].address_end = 65536 + 1 + 2 * PAGE_SIZE + 5
  /\ pipe[loc[1].pipe].command_buffer.buffers_count = 2
  /\ pipe[loc[1].pipe].command_buffer.buffers_bytes = 2 * PAGE_SIZE + 5

\* C24: every pipe in the signalled list is a live pipe object that is the
\* entry of the registry at its own id; a pipe whose open has failed is
\* not in the list once its slot is cleared and the object freed.
C24_ListedPipesRegistered ==
  \A o \in Listed :
    /\ pipe[o].allocated
    /\ pipe[o].id \in 0 .. pipes_capacity - 1
    /\ pipes[pipe[o].id] = o

\* C24 scenario: a failed open has returned; its pipe object is freed and
\* in no slot of the registry, and it is the head of the signalled list
C24_FreedPipeListed ==
  \E t \in Threads :
    /\ pc[t] = "done" /\ loc[t].op = "open" /\ loc[t].ret < 0
    /\ loc[t].pipe # NULL
    /\ ~pipe[loc[t].pipe].allocated
    /\ \A i \in 0 .. pipes_capacity - 1 : pipes[i] # loc[t].pipe
    /\ first_signalled_pipe = loc[t].pipe

\* C25: no host signal is lost between the interrupt and the tasklet:
\* whenever the device lock is free (every state of the model), every pipe
\* that is registered and has signalled_flags set is a member of the
\* signalled list, so that a later pop hands its flags to the tasklet.
C25_SignalledPipesListed ==
  \A o \in Objs :
    /\ pipe[o].allocated
    /\ pipe[o].id \in 0 .. pipes_capacity - 1
    /\ pipes[pipe[o].id] = o
    /\ pipe[o].signalled_flags # {}
    => o \in Listed

\* C25 scenario: a registered pipe has a wake flag set and a predecessor
\* link, so that signalled_pipes_add_locked will never link it again, but
\* the walk from the head does not reach it: its predecessor was freed by
\* a failed open while listed and the memory was given out again zeroed
C25_SignalStranded ==
  \E o \in Objs :
    /\ pipe[o].allocated
    /\ pipe[o].id \in 0 .. pipes_capacity - 1
    /\ pipes[pipe[o].id] = o
    /\ pipe[o].signalled_flags # {}
    /\ pipe[o].prev_signalled # NULL
    /\ pipe[pipe[o].prev_signalled].next_signalled # o
    /\ o \notin Listed

\* C26: a memory-mapping request on a pipe for which no DMA region was
\* created returns an error: a thread that has entered goldfish_dma_mmap
\* on such a pipe has returned with a negative status, and the pipe has
\* seen no allocation, no update of the total and no DMA_HOST_MAP command.
C26_MmapWithoutRegionFails ==
  \A t \in Threads :
    /\ loc[t].op = "mmap"
    /\ pc[t] # "idle"
    /\ ~RegionExists(pipe[loc[t].pipe].dma)
    => /\ pc[t] = "done"
       /\ loc[t].ret < 0
       /\ ~Materialized(pipe[loc[t].pipe].dma)
       /\ pipe[loc[t].pipe].command_buffer.cmd # "DMA_HOST_MAP"

\* C26 scenario: a thread asked for a valid size on an open pipe that has
\* no DMA context; it read pipe->dma->dma_vaddr through the null pointer
\* and died in the kernel, and the mutex of the pipe is still its own
C26_MmapOops ==
  \E t \in Threads :
    /\ pc[t] = "oops"
    /\ loc[t].op = "mmap"
    /\ file[loc[t].pipe] = "open"
    /\ ~RegionExists(pipe[loc[t].pipe].dma)
    /\ pipe[loc[t].pipe].lock = t

\* C27: every successful memory-mapping exposes only physical addresses
\* inside the region of the pipe: when goldfish_dma_mmap has returned 0,
\* the window [phys_begin, phys_begin + sz_requested) it handed to
\* remap_pfn_range lies in [phys_begin, phys_end), and sz_requested is not
\* larger than the recorded dma_size.
C27_WindowInsideRegion ==
  \A t \in Threads :
    /\ pc[t] = "done"
    /\ loc[t].op = "mmap"
    /\ loc[t].ret = 0
    /\ Materialized(pipe[loc[t].pipe].dma)
    => LET dma == pipe[loc[t].pipe].dma
       IN /\ loc[t].size <= dma.dma_size
          /\ dma.phys_begin + loc[t].size <= dma.phys_end

\* C27 scenario: the region of the pipe was created with one page, and a
\* memory-mapping of DMA_REGION_MAX_SIZE bytes on it has returned 0
C27_WindowBeyondRegion ==
  \E t \in Threads :
    /\ pc[t] = "done"
    /\ loc[t].op = "mmap"
    /\ loc[t].ret = 0
    /\ file[loc[t].pipe] = "open"
    /\ Materialized(pipe[loc[t].pipe].dma)
    /\ pipe[loc[t].pipe].dma.dma_size = PAGE_SIZE
    /\ pipe[loc[t].pipe].dma.phys_end =
         pipe[loc[t].pipe].dma.phys_begin + PAGE_SIZE
    /\ loc[t].size = DMA_REGION_MAX_SIZE

\* the sum of dma_size over the pipes of S that are open and whose region is
\* materialized
RECURSIVE C28_RegionsTotal(_)
C28_RegionsTotal(S) ==
  IF S = {} THEN 0
  ELSE LET o == CHOOSE x \in S : TRUE
       IN (IF file[o] = "open" /\ Materialized(pipe[o].dma)
           THEN pipe[o].dma.dma_size ELSE 0)
          + C28_RegionsTotal(S \ {o})

\* no thread is inside goldfish_dma_mmap or goldfish_pipe_release
C28_Quiescent ==
  \A t \in Threads :
    loc[t].op \in {"mmap", "release"} => pc[t] \in {"idle", "done"}

\* C28: whenever no materialization and no teardown is in progress,
\* dev->dma_alloc_total equals the sum of the sizes of the materialized
\* regions of all live pipes (and so is zero when every pipe is released),
\* for every interleaving of materializations and releases.
C28_TotalIsSumOfRegions ==
  C28_Quiescent => dma_alloc_total = C28_RegionsTotal(Objs)

\* C28 scenario: both pipes are open with a materialized region, both
\* memory-mappings have returned, and dev->dma_alloc_total holds the size
\* of one region only: each call read the total before the other wrote it
C28_LostUpdate ==
  /\ C28_Quiescent
  /\ \A o \in {1, 2} : file[o] = "open" /\ Materialized(pipe[o].dma)
  /\ \A o \in {1, 2} : hist[o].adds = 1 /\ hist[o].subs = 0
  /\ dma_alloc_total \in { pipe[1].dma.dma_size, pipe[2].dma.dma_size }
  /\ dma_alloc_total < pipe[1].dma.dma_size + pipe[2].dma.dma_size

====
